---------------------------- MODULE Spec2Model ----------------------------
(***************************************************************************)
(* A model of embedlet (include/embedlet.h): a memory-mapped single-file   *)
(* store of fixed-dimension float32 embeddings with append, replace,       *)
(* delete, trailing compaction and top-N cosine search.                    *)
(*                                                                         *)
(* The POSIX build is modelled.  The file is a byte length plus its        *)
(* content, kept per slot: a slot that is absent from the content map is   *)
(* all zero bytes (ftruncate zero-fills what it adds).  The mapping is     *)
(* MAP_SHARED, so a write through the mapping is a write to the file.      *)
(***************************************************************************)
EXTENDS Integers, Sequences, FiniteSets, TLC

(***************************************************************************)
(* Bounds of the model.                                                    *)
(***************************************************************************)
\* dims passed to embedlet_open
Dims == 3
\* appends are explored while the target id is below MaxCount
MaxCount == 3
\* the searched stores hold up to MaxSearchCount slots
MaxSearchCount == 3
\* search is asked for up to MaxN results
MaxN == 2
\* search is asked for up to MaxThreads threads
MaxThreads == 3
\* of two concurrent searches one runs with 2 threads, the other with up to
\* MaxPoolThreads
MaxPoolThreads == 2
\* calls of embedlet_pool_create the model follows on one store
MaxPools == 3
\* slots of the stores whose searches are followed up to the task ranges
MaxTaskCount == 9
\* capacity of the heaps pushed on their own, the pushes made on one heap,
\* and the largest score pushed
MaxHeap == 3
MaxPushes == 5
MaxScore == 3
\* a capacity is looked for among the first MaxDoublings doublings
MaxDoublings == 4
\* scores are kept to 1 / ScoreScale
ScoreScale == 1000

(***************************************************************************)
(* Program constants.                                                      *)
(***************************************************************************)
EMBEDLET_OK == 0
EMBEDLET_ERR_INVALID_ID == -2
EMBEDLET_ERR_MMAP == -4
EMBEDLET_ERR_ALLOC == -5
EMBEDLET_ERR_TRUNCATE == -6
SizeofFloat == 4
InitialCapacity == 4096
EMBEDLET_AUTO_THREADS == 0
\* FLT_EPSILON, in units of an eighth of itself
FLT_EPSILON == 8

VARIABLES
  store,   \* struct embedlet_store: open, capacity, file_size, data (mapped?)
  disk,    \* the file at the store's path: size in bytes and slot content
  ret,     \* the last public call: operation, arguments, return code, output
  snap,    \* history: count and content observed when close was entered
  expect,  \* history: per id, the vector of the last append/replace, zeros after delete
  faulty,  \* whether ftruncate and mmap may fail in this behaviour
  mutex,   \* store->mutex: the thread that holds it, or NoOwner
  callers, \* per calling thread: position in its call, arguments, locals, results
  pool,    \* store->pool: struct embedlet_pool and the work items allocated for it
  workers, \* per pool thread: position in embedlet_pool_worker and its work item
  searches \* per thread in a multi-threaded embedlet_search: position, tasks, results

vars == <<store, disk, ret, snap, expect, faulty, mutex, callers, pool, workers, searches>>

\* the store and its file, with the history of sequential calls
storeVars == <<store, disk, ret, snap, expect, faulty>>

\* the state of the calling threads and of the thread pool
threadVars == <<mutex, callers, pool, workers, searches>>

\* a null pointer to a work item
NoWork == <<>>

\* store->pool == NULL: no pool has been created
NoPool ==
  [created |-> FALSE, num_threads |-> 0, shutdown |-> FALSE,
   active_count |-> 0, pending_count |-> 0,
   work_head |-> NoWork, work_tail |-> NoWork, items |-> <<>>,
   creations |-> 0]

\* no multi-threaded search has run: no pool, no pool thread
NoSearches ==
  /\ pool = NoPool
  /\ workers = <<>>
  /\ searches = <<>>

\* pthread_mutex_t after embedlet_mutex_init or an unlock
NoOwner == 0

\* a behaviour with a single calling thread: every call runs from lock to
\* unlock before the next begins, so the mutex is free between calls
Sequential ==
  /\ mutex = NoOwner
  /\ callers = <<>>
  /\ NoSearches

----------------------------------------------------------------------------
(***************************************************************************)
(* Vectors.  A component is an integer count of a fixed unit; 0 is 0.0f.   *)
(***************************************************************************)
Zero == [j \in 1..Dims |-> 0]
FirstVec == [j \in 1..Dims |-> IF j = 1 THEN 16 ELSE 0]
LastVec == [j \in 1..Dims |-> IF j = Dims THEN 16 ELSE 0]
\* the vectors callers pass to append and replace
Vecs == {Zero, FirstVec, LastVec}
\* the ids callers pass to replace, delete, get and is_zeroed
Ids == 0..MaxCount

embedlet_embedding_size == Dims * SizeofFloat

embedlet_is_zeroed_ptr(v) == \A j \in 1..Dims : v[j] = 0

----------------------------------------------------------------------------
(***************************************************************************)
(* The file and the mapping.                                               *)
(***************************************************************************)
\* the Dims floats at slot i of the file (zero where nothing non-zero was written)
SlotAt(fl, i) == IF i \in DOMAIN fl.slots THEN fl.slots[i] ELSE Zero

\* mutant: the copy is one float long instead of one embedding long
WriteSlotOneFloat(fl, i, v) ==
  LET w == [SlotAt(fl, i) EXCEPT ![1] = v[1]]
  IN [fl EXCEPT !.slots =
        IF embedlet_is_zeroed_ptr(w)
          THEN [k \in (DOMAIN fl.slots) \ {i} |-> fl.slots[k]]
          ELSE [k \in (DOMAIN fl.slots) \cup {i} |-> IF k = i THEN w ELSE fl.slots[k]]]

\* memcpy of one embedding into slot i through the shared mapping
WriteSlot(fl, i, v) ==
  [fl EXCEPT !.slots =
     IF embedlet_is_zeroed_ptr(v)
       THEN [k \in (DOMAIN fl.slots) \ {i} |-> fl.slots[k]]
       ELSE [k \in (DOMAIN fl.slots) \cup {i} |-> IF k = i THEN v ELSE fl.slots[k]]]

\* mutant: the memset is one float long instead of one embedding long
ZeroSlotOneFloat(fl, i) == WriteSlotOneFloat(fl, i, Zero)

\* memset of slot i to zero bytes through the shared mapping
ZeroSlot(fl, i) ==
  [fl EXCEPT !.slots = [k \in (DOMAIN fl.slots) \ {i} |-> fl.slots[k]]]

\* mutant: the file is emptied and then extended, so no byte survives
TruncateFromEmpty(fl, new_size) == [size |-> new_size, slots |-> <<>>]

\* ftruncate: the file becomes new_size bytes long; bytes past it are lost,
\* bytes it adds read as zero
Truncate(fl, new_size) ==
  [size |-> new_size,
   slots |-> [k \in {k \in DOMAIN fl.slots : (k + 1) * embedlet_embedding_size <= new_size}
                |-> fl.slots[k]]]

\* embedlet_file_resize (POSIX): unmap, ftruncate, set file_size
embedlet_file_resize(st, fl, new_size, ok) ==
  LET unm == IF st.data /\ st.capacity > 0
               THEN [st EXCEPT !.data = FALSE, !.capacity = 0]
               ELSE st
  IN IF ~ok
       THEN [st |-> unm, fl |-> fl, err |-> EMBEDLET_ERR_TRUNCATE]
       ELSE [st |-> [unm EXCEPT !.file_size = new_size],
             fl |-> Truncate(fl, new_size),
             err |-> EMBEDLET_OK]

\* mutant: a successful mmap does not record the new capacity
MmapUpdateKeepsCapacity(st, fl, new_capacity, ok) ==
  LET unm == IF st.data /\ st.capacity > 0 THEN [st EXCEPT !.data = FALSE] ELSE st
  IN IF new_capacity = 0
       THEN [st |-> [unm EXCEPT !.capacity = 0], fl |-> fl, err |-> EMBEDLET_OK]
       ELSE IF ~ok
         THEN [st |-> [unm EXCEPT !.data = FALSE], fl |-> fl, err |-> EMBEDLET_ERR_MMAP]
         ELSE [st |-> [unm EXCEPT !.data = TRUE], fl |-> fl, err |-> EMBEDLET_OK]

\* embedlet_mmap_update (POSIX): unmap, then map new_capacity bytes
embedlet_mmap_update(st, fl, new_capacity, ok) ==
  LET unm == IF st.data /\ st.capacity > 0 THEN [st EXCEPT !.data = FALSE] ELSE st
  IN IF new_capacity = 0
       THEN [st |-> [unm EXCEPT !.capacity = 0], fl |-> fl, err |-> EMBEDLET_OK]
       ELSE IF ~ok
         THEN [st |-> [unm EXCEPT !.data = FALSE], fl |-> fl, err |-> EMBEDLET_ERR_MMAP]
         ELSE [st |-> [unm EXCEPT !.data = TRUE, !.capacity = new_capacity],
               fl |-> fl, err |-> EMBEDLET_OK]

RECURSIVE DoubleUntil(_, _)
\* while (new_cap < needed_bytes) new_cap *= 2;
DoubleUntil(new_cap, needed_bytes) ==
  IF new_cap < needed_bytes THEN DoubleUntil(new_cap * 2, needed_bytes) ELSE new_cap

\* mutant: the new capacity is doubled once and not compared with the need
NewCapacityOneDoubling(capacity, needed_bytes) ==
  IF capacity # 0 THEN capacity * 2 ELSE InitialCapacity

\* size_t new_cap = store->capacity ? store->capacity * 2 : 4096; then the loop
NewCapacity(capacity, needed_bytes) ==
  DoubleUntil(IF capacity # 0 THEN capacity * 2 ELSE InitialCapacity, needed_bytes)

\* embedlet_ensure_capacity
embedlet_ensure_capacity(st, fl, needed_bytes, tok, mok) ==
  IF needed_bytes <= st.capacity
    THEN [st |-> st, fl |-> fl, err |-> EMBEDLET_OK]
    ELSE LET new_cap == NewCapacity(st.capacity, needed_bytes)
             r1 == embedlet_file_resize(st, fl, new_cap, tok)
         IN IF r1.err # EMBEDLET_OK
              THEN r1
              ELSE embedlet_mmap_update(r1.st, r1.fl, new_cap, mok)

----------------------------------------------------------------------------
(***************************************************************************)
(* Accessors.                                                              *)
(***************************************************************************)
\* embedlet_count
embedlet_count(st) == st.file_size \div (Dims * SizeofFloat)

Count == embedlet_count(store)

\* the null pointer: no vector (a vector has Dims >= 1 floats)
NULL == <<>>

\* embedlet_get: NULL without a mapping or for id >= count, else the slot
embedlet_get(st, fl, id) ==
  IF ~st.data THEN NULL
  ELSE IF id >= embedlet_count(st) THEN NULL
  ELSE SlotAt(fl, id)

\* embedlet_is_zeroed
embedlet_is_zeroed(st, fl, id) ==
  LET emb == embedlet_get(st, fl, id)
  IN IF emb = NULL THEN TRUE ELSE embedlet_is_zeroed_ptr(emb)

----------------------------------------------------------------------------
(***************************************************************************)
(* The public operations on the store.                                     *)
(***************************************************************************)
\* the struct after free(store): no handle is live
ClosedStore == [open |-> FALSE, capacity |-> 0, file_size |-> 0, data |-> FALSE]

NoSnap == [valid |-> FALSE]

NoVec == <<>>

\* the signal that ends the process when a call reads or writes through
\* store->data while it is NULL
SIGSEGV == 11

\* store->data is NULL although count > 0: slot addresses are offsets from NULL
Unmapped(st) == ~st.data /\ embedlet_count(st) > 0

\* the record of a finished public call
Ret(op, id, v, flag, rc, out) ==
  [op |-> op, id |-> id, v |-> v, flag |-> flag, rc |-> rc, out |-> out]

\* ftruncate and mmap succeed unless the behaviour admits failures
FaultChoices == IF faulty THEN BOOLEAN ELSE {TRUE}

\* the history of writes after a write of v to slot id
Note(id, v) == [k \in (DOMAIN expect) \cup {id} |-> IF k = id THEN v ELSE expect[k]]

\* embedlet_open on the store's path with dims = Dims
embedlet_open ==
  /\ ~store.open
  /\ \E mok \in FaultChoices :
       LET st0 == [open |-> TRUE, capacity |-> 0, file_size |-> disk.size, data |-> FALSE]
           r == IF st0.file_size > 0
                  THEN embedlet_mmap_update(st0, disk, st0.file_size, mok)
                  ELSE [st |-> st0, fl |-> disk, err |-> EMBEDLET_OK]
       IN /\ store' = IF r.err = EMBEDLET_OK THEN r.st ELSE ClosedStore
          /\ ret' = Ret("open", 0, NoVec, FALSE, r.err, 0)
  /\ UNCHANGED <<disk, snap, expect, faulty, threadVars>>

\* mutant: an if in place of the while, so one trailing slot at most is dropped
ScanTailOnce(fl, count) ==
  IF count > 0 /\ embedlet_is_zeroed_ptr(SlotAt(fl, count - 1)) THEN count - 1 ELSE count

\* size_t last_nonzero = count;
\* while (last_nonzero > 0) { if (!is_zeroed_ptr(slot last_nonzero-1)) break; last_nonzero--; }
\* The downward scan stops at the greatest k <= count whose slot k-1 is not
\* all zero, or at 0: written as that maximum, since count is in the hundreds
\* once a grown file is reopened.
ScanTail(fl, count) ==
  LET stops == {0} \cup {k \in 1..count : ~embedlet_is_zeroed_ptr(SlotAt(fl, k - 1))}
  IN CHOOSE k \in stops : \A j \in stops : j <= k

\* embedlet_compact, as a function of the store and the file
CompactStep(st, fl, tok, mok) ==
  LET count == embedlet_count(st)
      last_nonzero == ScanTail(fl, count)
      new_size == last_nonzero * embedlet_embedding_size
      r1 == embedlet_file_resize(st, fl, new_size, tok)
  IN IF count = 0 THEN [st |-> st, fl |-> fl, err |-> EMBEDLET_OK]
     ELSE IF Unmapped(st) THEN [st |-> ClosedStore, fl |-> fl, err |-> SIGSEGV]
     ELSE IF ~(last_nonzero < count) THEN [st |-> st, fl |-> fl, err |-> EMBEDLET_OK]
     ELSE IF r1.err # EMBEDLET_OK THEN r1
     ELSE IF new_size > 0 THEN embedlet_mmap_update(r1.st, r1.fl, new_size, mok)
     ELSE r1

\* embedlet_close(store, compact)
embedlet_close(compact) ==
  /\ store.open
  /\ \E tok \in FaultChoices, mok \in FaultChoices :
       LET r == IF compact
                  THEN CompactStep(store, disk, tok, mok)
                  ELSE [st |-> store, fl |-> disk, err |-> EMBEDLET_OK]
       IN /\ disk' = r.fl
          /\ store' = ClosedStore
          /\ ret' = Ret("close", 0, NoVec, compact,
                        IF r.err = SIGSEGV THEN SIGSEGV ELSE EMBEDLET_OK, 0)
          /\ snap' = IF r.err = SIGSEGV
                       THEN NoSnap
                       ELSE [valid |-> TRUE, compact |-> compact, count |-> Count, fl |-> disk]
  /\ UNCHANGED <<expect, faulty, threadVars>>

\* mutant: the reuse scan starts one slot late
FirstZeroedSkipsOne(fl, i, count) ==
  LET zs == {k \in (i + 1)..(count - 1) : embedlet_is_zeroed_ptr(SlotAt(fl, k))}
  IN IF zs = {} THEN count ELSE CHOOSE k \in zs : \A j \in zs : k <= j

RECURSIVE FirstZeroed(_, _, _)
\* for (i = 0; i < count; i++) if (is_zeroed_ptr(slot i)) { target_id = i; break; }
FirstZeroed(fl, i, count) ==
  IF i < count
    THEN IF embedlet_is_zeroed_ptr(SlotAt(fl, i)) THEN i ELSE FirstZeroed(fl, i + 1, count)
    ELSE count

\* mutant: the reuse flag is not consulted
AppendTargetIgnoresFlag(st, fl, reuse) ==
  LET count == st.file_size \div embedlet_embedding_size
  IN IF st.data THEN FirstZeroed(fl, 0, count) ELSE count

\* the id embedlet_append writes to
AppendTarget(st, fl, reuse) ==
  LET count == st.file_size \div embedlet_embedding_size
  IN IF reuse /\ st.data THEN FirstZeroed(fl, 0, count) ELSE count

\* embedlet_append(store, data, reuse, &id_out)
embedlet_append(data, reuse) ==
  /\ store.open
  /\ AppendTarget(store, disk, reuse) < MaxCount
  /\ \E tok \in FaultChoices, mok \in FaultChoices :
       LET emb_size == embedlet_embedding_size
           count == store.file_size \div emb_size
           target_id == AppendTarget(store, disk, reuse)
           new_file_size == store.file_size + emb_size
           r == IF target_id = count
                  THEN embedlet_ensure_capacity(store, disk, new_file_size, tok, mok)
                  ELSE [st |-> store, fl |-> disk, err |-> EMBEDLET_OK]
       IN IF r.err # EMBEDLET_OK
            THEN /\ store' = r.st
                 /\ disk' = r.fl
                 /\ ret' = Ret("append", 0, data, reuse, r.err, 0)
                 /\ expect' = expect
            ELSE /\ store' = IF target_id = count
                               THEN [r.st EXCEPT !.file_size = new_file_size]
                               ELSE r.st
                 /\ disk' = WriteSlot(r.fl, target_id, data)
                 /\ ret' = Ret("append", 0, data, reuse, EMBEDLET_OK, target_id)
                 /\ expect' = Note(target_id, data)
  /\ snap' = NoSnap
  /\ UNCHANGED <<faulty, threadVars>>

\* mutant: the range test lets id == count through
InvalidIdOffByOne(st, id) == id > embedlet_count(st)

\* size_t count = embedlet_count(store); if (id >= count) ... EMBEDLET_ERR_INVALID_ID
InvalidId(st, id) == id >= embedlet_count(st)

\* embedlet_replace(store, id, data)
embedlet_replace(id, data) ==
  /\ store.open
  /\ IF InvalidId(store, id)
       THEN /\ ret' = Ret("replace", id, data, FALSE, EMBEDLET_ERR_INVALID_ID, 0)
            /\ UNCHANGED <<store, disk, expect>>
       ELSE IF Unmapped(store)
       THEN /\ ret' = Ret("replace", id, data, FALSE, SIGSEGV, 0)
            /\ store' = ClosedStore
            /\ UNCHANGED <<disk, expect>>
       ELSE /\ disk' = WriteSlot(disk, id, data)
            /\ ret' = Ret("replace", id, data, FALSE, EMBEDLET_OK, 0)
            /\ expect' = Note(id, data)
            /\ UNCHANGED store
  /\ snap' = NoSnap
  /\ UNCHANGED <<faulty, threadVars>>

\* embedlet_delete(store, id)
embedlet_delete(id) ==
  /\ store.open
  /\ IF InvalidId(store, id)
       THEN /\ ret' = Ret("delete", id, NoVec, FALSE, EMBEDLET_ERR_INVALID_ID, 0)
            /\ UNCHANGED <<store, disk, expect>>
       ELSE IF Unmapped(store)
       THEN /\ ret' = Ret("delete", id, NoVec, FALSE, SIGSEGV, 0)
            /\ store' = ClosedStore
            /\ UNCHANGED <<disk, expect>>
       ELSE /\ disk' = ZeroSlot(disk, id)
            /\ ret' = Ret("delete", id, NoVec, FALSE, EMBEDLET_OK, 0)
            /\ expect' = Note(id, Zero)
            /\ UNCHANGED store
  /\ snap' = NoSnap
  /\ UNCHANGED <<faulty, threadVars>>

\* embedlet_compact(store)
embedlet_compact ==
  /\ store.open
  /\ \E tok \in FaultChoices, mok \in FaultChoices :
       LET r == CompactStep(store, disk, tok, mok)
       IN /\ store' = r.st
          /\ disk' = r.fl
          /\ ret' = Ret("compact", 0, NoVec, FALSE, r.err, 0)
  /\ snap' = NoSnap
  /\ UNCHANGED <<expect, faulty, threadVars>>

\* a fresh path: no file yet, no store handle
Init ==
  /\ store = ClosedStore
  /\ disk = [size |-> 0, slots |-> <<>>]
  /\ ret = Ret("none", 0, NoVec, FALSE, EMBEDLET_OK, 0)
  /\ snap = NoSnap
  /\ expect = <<>>
  /\ faulty = FALSE
  /\ Sequential

Next ==
  \/ embedlet_open
  \/ \E compact \in BOOLEAN : embedlet_close(compact)
  \/ \E data \in Vecs, reuse \in BOOLEAN : embedlet_append(data, reuse)
  \/ \E id \in Ids, data \in Vecs : embedlet_replace(id, data)
  \/ \E id \in Ids : embedlet_delete(id)
  \/ embedlet_compact

Spec == Init /\ [][Next]_vars

\* the same fresh path in an environment where ftruncate and mmap may fail
InitFault ==
  /\ store = ClosedStore
  /\ disk = [size |-> 0, slots |-> <<>>]
  /\ ret = Ret("none", 0, NoVec, FALSE, EMBEDLET_OK, 0)
  /\ snap = NoSnap
  /\ expect = <<>>
  /\ faulty = TRUE
  /\ Sequential

SpecFault == InitFault /\ [][Next]_vars

----------------------------------------------------------------------------
(***************************************************************************)
(* The similarity kernel.  A float is an integer count of a unit that is   *)
(* FLT_EPSILON / 8; a score is an integer count of 1 / ScoreScale.  Sums   *)
(* and products are exact; sqrtf and the quotient truncate.                *)
(***************************************************************************)
RECURSIVE SumTo(_, _)
\* for (i = 0; i < n; i++) sum += f(i);
SumTo(f, n) == IF n = 0 THEN 0 ELSE SumTo(f, n - 1) + f[n]

\* embedlet_dot
embedlet_dot(a, b) == SumTo([j \in 1..Dims |-> a[j] * b[j]], Dims)

\* sqrtf, truncated to the unit
Sqrtf(x) == CHOOSE r \in 0..x : r * r <= x /\ (r + 1) * (r + 1) > x

\* embedlet_norm
embedlet_norm(a) == Sqrtf(SumTo([j \in 1..Dims |-> a[j] * a[j]], Dims))

\* dot / (norm * norm) as a score; the quotient keeps the sign of dot
Quotient(dot, den) ==
  IF dot >= 0 THEN (dot * ScoreScale) \div den ELSE 0 - (((0 - dot) * ScoreScale) \div den)

\* embedlet_similarity_raw
embedlet_similarity_raw(a, b) ==
  LET dot == embedlet_dot(a, b)
      na == embedlet_norm(a)
      nb == embedlet_norm(b)
  IN IF na < FLT_EPSILON \/ nb < FLT_EPSILON THEN 0 ELSE Quotient(dot, na * nb)

\* the score of slot emb in the single-threaded scan of embedlet_search
ScanSim(query, query_norm, emb) ==
  LET dot == embedlet_dot(query, emb)
      emb_norm == embedlet_norm(emb)
  IN IF query_norm > FLT_EPSILON /\ emb_norm > FLT_EPSILON
       THEN Quotient(dot, query_norm * emb_norm)
       ELSE 0

\* the score of slot emb in embedlet_search_worker
WorkerSim(query, query_norm, emb) ==
  LET dot == embedlet_dot(query, emb)
      emb_norm == embedlet_norm(emb)
  IN IF query_norm > 0 /\ emb_norm > 0
       THEN Quotient(dot, query_norm * emb_norm)
       ELSE 0

----------------------------------------------------------------------------
(***************************************************************************)
(* The bounded heaps.  A heap is the sequence of its (id, score) entries;  *)
(* C index i is sequence index i + 1.                                      *)
(***************************************************************************)
\* tmp = heap[i]; heap[i] = heap[j]; heap[j] = tmp;
Swap(heap, i, j) == [heap EXCEPT ![i + 1] = heap[j + 1], ![j + 1] = heap[i + 1]]

RECURSIVE SiftUpMin(_, _)
\* the while (i > 0) loop of embedlet_heap_push_min
SiftUpMin(heap, i) ==
  IF i > 0
    THEN LET parent == (i - 1) \div 2
         IN IF heap[parent + 1].score <= heap[i + 1].score
              THEN heap
              ELSE SiftUpMin(Swap(heap, parent, i), parent)
    ELSE heap

RECURSIVE SiftDownMin(_, _, _)
\* the for (;;) loop of embedlet_heap_push_min
SiftDownMin(heap, i, max_size) ==
  LET left == 2 * i + 1
      right == 2 * i + 2
      s1 == IF left < max_size /\ heap[left + 1].score < heap[i + 1].score THEN left ELSE i
      smallest == IF right < max_size /\ heap[right + 1].score < heap[s1 + 1].score
                    THEN right ELSE s1
  IN IF smallest = i THEN heap ELSE SiftDownMin(Swap(heap, i, smallest), smallest, max_size)

\* mutant: a full heap admits nothing
HeapPushMinNoReplace(heap, max_size, id, score) ==
  IF Len(heap) < max_size
    THEN SiftUpMin(heap \o <<[id |-> id, score |-> score]>>, Len(heap))
    ELSE heap

\* mutant: a full heap admits a score equal to its root
HeapPushMinAdmitsTies(heap, max_size, id, score) ==
  IF Len(heap) < max_size
    THEN SiftUpMin(heap \o <<[id |-> id, score |-> score]>>, Len(heap))
    ELSE IF score >= heap[1].score
      THEN SiftDownMin([heap EXCEPT ![1] = [id |-> id, score |-> score]], 0, max_size)
      ELSE heap

\* embedlet_heap_push_min
embedlet_heap_push_min(heap, max_size, id, score) ==
  IF Len(heap) < max_size
    THEN SiftUpMin(heap \o <<[id |-> id, score |-> score]>>, Len(heap))
    ELSE IF score > heap[1].score
      THEN SiftDownMin([heap EXCEPT ![1] = [id |-> id, score |-> score]], 0, max_size)
      ELSE heap

RECURSIVE SiftUpMax(_, _)
\* the while (i > 0) loop of embedlet_heap_push_max
SiftUpMax(heap, i) ==
  IF i > 0
    THEN LET parent == (i - 1) \div 2
         IN IF heap[parent + 1].score >= heap[i + 1].score
              THEN heap
              ELSE SiftUpMax(Swap(heap, parent, i), parent)
    ELSE heap

RECURSIVE SiftDownMax(_, _, _)
\* the for (;;) loop of embedlet_heap_push_max
SiftDownMax(heap, i, max_size) ==
  LET left == 2 * i + 1
      right == 2 * i + 2
      l1 == IF left < max_size /\ heap[left + 1].score > heap[i + 1].score THEN left ELSE i
      largest == IF right < max_size /\ heap[right + 1].score > heap[l1 + 1].score
                   THEN right ELSE l1
  IN IF largest = i THEN heap ELSE SiftDownMax(Swap(heap, i, largest), largest, max_size)

\* mutant: the entry that replaces the root is not sifted down
HeapPushMaxNoSiftDown(heap, max_size, id, score) ==
  IF Len(heap) < max_size
    THEN SiftUpMax(heap \o <<[id |-> id, score |-> score]>>, Len(heap))
    ELSE IF score < heap[1].score
      THEN [heap EXCEPT ![1] = [id |-> id, score |-> score]]
      ELSE heap

\* embedlet_heap_push_max
embedlet_heap_push_max(heap, max_size, id, score) ==
  IF Len(heap) < max_size
    THEN SiftUpMax(heap \o <<[id |-> id, score |-> score]>>, Len(heap))
    ELSE IF score < heap[1].score
      THEN SiftDownMax([heap EXCEPT ![1] = [id |-> id, score |-> score]], 0, max_size)
      ELSE heap

\* if (most_similar) embedlet_heap_push_min(...) else embedlet_heap_push_max(...)
HeapPush(heap, max_size, id, score, most_similar) ==
  IF most_similar
    THEN embedlet_heap_push_min(heap, max_size, id, score)
    ELSE embedlet_heap_push_max(heap, max_size, id, score)

\* embedlet_cmp_desc / embedlet_cmp_asc: a is not to be placed after b
CmpOrdered(a, b, most_similar) ==
  IF most_similar THEN a.score >= b.score ELSE a.score <= b.score

\* mutant: the result array is returned in heap order, without the sort
QsortSkipped(heap, most_similar) == {heap}

\* qsort(results, heap_size, ..., most_similar ? embedlet_cmp_desc : embedlet_cmp_asc):
\* every arrangement of the heap that the comparator accepts (qsort is not stable)
Qsort(heap, most_similar) ==
  {arr \in {[k \in 1..Len(heap) |-> heap[p[k]]] : p \in Permutations(1..Len(heap))} :
     \A k \in 1..(Len(heap) - 1) : CmpOrdered(arr[k], arr[k + 1], most_similar)}

----------------------------------------------------------------------------
(***************************************************************************)
(* embedlet_search.                                                        *)
(***************************************************************************)
\* mutant: the scan does not skip all-zero slots
ScanSlotKeepsZero(fl, query, query_norm, i, heap, n, most_similar, pooled) ==
  LET emb == SlotAt(fl, i)
      sim == IF pooled THEN WorkerSim(query, query_norm, emb)
                       ELSE ScanSim(query, query_norm, emb)
  IN HeapPush(heap, n, i, sim, most_similar)

\* one iteration of the scan loop, in the caller (pooled = FALSE) or in
\* embedlet_search_worker (pooled = TRUE)
ScanSlot(fl, query, query_norm, i, heap, n, most_similar, pooled) ==
  LET emb == SlotAt(fl, i)
      sim == IF pooled THEN WorkerSim(query, query_norm, emb)
                       ELSE ScanSim(query, query_norm, emb)
  IN IF embedlet_is_zeroed_ptr(emb)
       THEN heap
       ELSE HeapPush(heap, n, i, sim, most_similar)

RECURSIVE ScanRange(_, _, _, _, _, _, _, _, _)
\* for (i = start; i < end; i++) { ... }
ScanRange(fl, query, query_norm, i, end, heap, n, most_similar, pooled) ==
  IF i < end
    THEN ScanRange(fl, query, query_norm, i + 1, end,
                   ScanSlot(fl, query, query_norm, i, heap, n, most_similar, pooled),
                   n, most_similar, pooled)
    ELSE heap

\* mutant: AUTO takes every processor
EffectiveThreadsUncapped(num_threads, cpu_count, total) ==
  LET t0 == IF num_threads = EMBEDLET_AUTO_THREADS THEN cpu_count ELSE num_threads
      t1 == IF t0 < 1 THEN 1 ELSE t0
  IN IF t1 > total THEN total ELSE t1

\* the thread count embedlet_search settles on
EffectiveThreads(num_threads, cpu_count, total) ==
  LET t0 == IF num_threads = EMBEDLET_AUTO_THREADS
              THEN (IF cpu_count > 8 THEN 8 ELSE cpu_count)
              ELSE num_threads
      t1 == IF t0 < 1 THEN 1 ELSE t0
  IN IF t1 > total THEN total ELSE t1

\* mutant: the remainder is left out of the start of a task
TaskStartNoRemainder(i, total, threads) == i * (total \div threads)

\* tasks[i].start
TaskStart(i, total, threads) ==
  LET chunk == total \div threads
      remainder == total % threads
  IN i * chunk + (IF i < remainder THEN i ELSE remainder)

\* tasks[i].end
TaskEnd(i, total, threads) ==
  LET chunk == total \div threads
      remainder == total % threads
  IN TaskStart(i, total, threads) + chunk + (IF i < remainder THEN 1 ELSE 0)

\* embedlet_search_worker on task i: its local_results, result_count = Len
embedlet_search_worker(fl, query, query_norm, i, total, threads, n, most_similar) ==
  ScanRange(fl, query, query_norm, TaskStart(i, total, threads),
            TaskEnd(i, total, threads), <<>>, n, most_similar, TRUE)

RECURSIVE PushAll(_, _, _, _, _)
\* for (j = 0; j < tasks[i].result_count; j++) push local_results[j]
PushAll(heap, local, j, n, most_similar) ==
  IF j < Len(local)
    THEN PushAll(HeapPush(heap, n, local[j + 1].id, local[j + 1].score, most_similar),
                 local, j + 1, n, most_similar)
    ELSE heap

\* mutant: the merge reads the first task's results only
MergeFirstTaskOnly(fl, query, query_norm, i, total, threads, heap, n, most_similar) ==
  IF i < 1
    THEN PushAll(heap,
                 embedlet_search_worker(fl, query, query_norm, i, total, threads, n, most_similar),
                 0, n, most_similar)
    ELSE heap

RECURSIVE Merge(_, _, _, _, _, _, _, _, _)
\* for (i = 0; i < threads; i++) { push every local result of task i }
Merge(fl, query, query_norm, i, total, threads, heap, n, most_similar) ==
  IF i < threads
    THEN Merge(fl, query, query_norm, i + 1, total, threads,
               PushAll(heap,
                       embedlet_search_worker(fl, query, query_norm, i, total, threads,
                                              n, most_similar),
                       0, n, most_similar),
               n, most_similar)
    ELSE heap

\* the heap embedlet_search holds before the final qsort
SearchHeap(fl, query, total, threads, n, most_similar) ==
  LET query_norm == embedlet_norm(query)
  IN IF threads = 1
       THEN ScanRange(fl, query, query_norm, 0, total, <<>>, n, most_similar, FALSE)
       ELSE Merge(fl, query, query_norm, 0, total, threads, <<>>, n, most_similar)

\* the record of a finished embedlet_search call
SearchRet(query, n, most_similar, threads, results) ==
  [op |-> "search", query |-> query, n |-> n, most |-> most_similar,
   threads |-> threads, rc |-> EMBEDLET_OK, count_out |-> Len(results),
   results |-> results]

\* embedlet_search(store, query, n, most_similar, num_threads, results, &count_out)
\* on a machine with cpu_count processors
embedlet_search(query, n, most_similar, num_threads, cpu_count) ==
  /\ store.open
  /\ LET total == embedlet_count(store)
         threads == EffectiveThreads(num_threads, cpu_count, total)
     IN IF total = 0
          THEN ret' = SearchRet(query, n, most_similar, 0, <<>>)
          ELSE \E results \in Qsort(SearchHeap(disk, query, total, threads, n, most_similar),
                                    most_similar) :
                 ret' = SearchRet(query, n, most_similar, threads, results)
  /\ snap' = NoSnap
  /\ UNCHANGED <<store, disk, expect, faulty, threadVars>>

\* the vector with a in its first and b in its last component
Vec2(a, b) == [j \in 1..Dims |-> IF j = 1 THEN a ELSE IF j = Dims THEN b ELSE 0]

\* the slot contents searched: deleted, a norm below FLT_EPSILON, and unit-scale
\* vectors at several angles
SearchVecs == {Zero, Vec2(1, 0), Vec2(20, 0), Vec2(12, 16), Vec2(0, 20), Vec2(-20, 0)}

\* the queries
Queries == {Vec2(20, 0), Vec2(12, 16)}

\* the num_threads arguments, among them a negative one, AUTO and SINGLE
ThreadArgs == (-1)..MaxThreads

\* what embedlet_get_cpu_count may answer
CpuCounts == {1, 2, 9}

\* a store that appends and deletes have filled with count slots
InitSearch ==
  /\ \E count \in 0..MaxSearchCount :
       \E f \in [0..(count - 1) -> SearchVecs] :
         /\ store = [open |-> TRUE, capacity |-> IF count = 0 THEN 0 ELSE InitialCapacity,
                     file_size |-> count * embedlet_embedding_size, data |-> count > 0]
         /\ disk = [size |-> IF count = 0 THEN 0 ELSE InitialCapacity,
                    slots |-> [k \in {k \in 0..(count - 1) : ~embedlet_is_zeroed_ptr(f[k])}
                                 |-> f[k]]]
  /\ ret = Ret("none", 0, NoVec, FALSE, EMBEDLET_OK, 0)
  /\ snap = NoSnap
  /\ expect = <<>>
  /\ faulty = FALSE
  /\ Sequential

\* one call of search on the store drawn by InitSearch
NextSearch ==
  /\ ret.op = "none"
  /\ \E query \in Queries, n \in 1..MaxN, most_similar \in BOOLEAN, num_threads \in ThreadArgs :
       \E cpu_count \in (IF num_threads = EMBEDLET_AUTO_THREADS THEN CpuCounts ELSE {1}) :
         embedlet_search(query, n, most_similar, num_threads, cpu_count)

SpecSearch == InitSearch /\ [][NextSearch]_vars

----------------------------------------------------------------------------
(***************************************************************************)
(* Threads that call embedlet_append on one store at the same time.  A     *)
(* thread is preempted between any two statements of the call, so the call *)
(* is a sequence of steps: lock, read the count, grow, copy, unlock.       *)
(***************************************************************************)
\* the threads that call append
AppendThreads == {1, 2}

\* mutant: the lock is granted whether or not another thread holds it
MutexNeverHeld(m) == TRUE

\* pthread_mutex_lock returns once no thread holds the mutex
MutexFree(m) == m = NoOwner

\* a thread about to call embedlet_append(store, data, reuse, &id_out)
AppendCall(data, reuse) ==
  [pc |-> "call", data |-> data, reuse |-> reuse,
   count |-> 0, target_id |-> 0, rc |-> EMBEDLET_OK, id_out |-> 0]

\* embedlet_mutex_lock(&store->mutex)
AppendLock(t) ==
  /\ callers[t].pc = "call"
  /\ MutexFree(mutex)
  /\ mutex' = t
  /\ callers' = [callers EXCEPT ![t].pc = "locked"]
  /\ UNCHANGED <<store, disk, ret, snap, expect, faulty, pool, workers, searches>>

\* size_t count = store->file_size / emb_size; size_t target_id = count;
\* and the reuse scan
AppendFindTarget(t) ==
  /\ callers[t].pc = "locked"
  /\ callers' = [callers EXCEPT
        ![t].pc = "grow",
        ![t].count = store.file_size \div embedlet_embedding_size,
        ![t].target_id = AppendTarget(store, disk, callers[t].reuse)]
  /\ UNCHANGED <<store, disk, ret, snap, expect, faulty, mutex, pool, workers, searches>>

\* if (target_id == count) { ensure_capacity(file_size + emb_size); file_size = ... }
AppendGrow(t) ==
  /\ callers[t].pc = "grow"
  /\ \E tok \in FaultChoices, mok \in FaultChoices :
       LET new_file_size == store.file_size + embedlet_embedding_size
           r == IF callers[t].target_id = callers[t].count
                  THEN embedlet_ensure_capacity(store, disk, new_file_size, tok, mok)
                  ELSE [st |-> store, fl |-> disk, err |-> EMBEDLET_OK]
       IN IF r.err # EMBEDLET_OK
            THEN /\ store' = r.st
                 /\ disk' = r.fl
                 /\ mutex' = NoOwner
                 /\ callers' = [callers EXCEPT ![t].pc = "done", ![t].rc = r.err]
            ELSE /\ store' = IF callers[t].target_id = callers[t].count
                               THEN [r.st EXCEPT !.file_size = new_file_size]
                               ELSE r.st
                 /\ disk' = r.fl
                 /\ mutex' = mutex
                 /\ callers' = [callers EXCEPT ![t].pc = "copy"]
  /\ UNCHANGED <<ret, snap, expect, faulty, pool, workers, searches>>

\* memcpy(store->data + target_id * store->dims, data, emb_size); *id_out = target_id;
AppendCopy(t) ==
  /\ callers[t].pc = "copy"
  /\ disk' = WriteSlot(disk, callers[t].target_id, callers[t].data)
  /\ callers' = [callers EXCEPT ![t].pc = "unlock", ![t].id_out = callers[t].target_id]
  /\ UNCHANGED <<store, ret, snap, expect, faulty, mutex, pool, workers, searches>>

\* embedlet_mutex_unlock(&store->mutex); return EMBEDLET_OK;
AppendUnlock(t) ==
  /\ callers[t].pc = "unlock"
  /\ mutex' = NoOwner
  /\ callers' = [callers EXCEPT ![t].pc = "done", ![t].rc = EMBEDLET_OK]
  /\ UNCHANGED <<store, disk, ret, snap, expect, faulty, pool, workers, searches>>

\* an open store that earlier appends, replaces and deletes filled with count
\* slots, and the threads of AppendThreads, each about to append its vector
\* without reuse; snap keeps the store as it is before the calls
InitAppend2 ==
  /\ \E count \in 0..(MaxCount - 1) :
       \E f \in [0..(count - 1) -> Vecs] :
         /\ store = [open |-> TRUE, capacity |-> IF count = 0 THEN 0 ELSE InitialCapacity,
                     file_size |-> count * embedlet_embedding_size, data |-> count > 0]
         /\ disk = [size |-> IF count = 0 THEN 0 ELSE InitialCapacity,
                    slots |-> [k \in {k \in 0..(count - 1) : ~embedlet_is_zeroed_ptr(f[k])}
                                 |-> f[k]]]
         /\ snap = [valid |-> TRUE, compact |-> FALSE, count |-> count, fl |-> disk]
  /\ ret = Ret("none", 0, NoVec, FALSE, EMBEDLET_OK, 0)
  /\ expect = <<>>
  /\ faulty = FALSE
  /\ mutex = NoOwner
  /\ callers \in [AppendThreads -> {AppendCall(v, FALSE) : v \in Vecs}]
  /\ NoSearches

NextAppend2 ==
  \E t \in AppendThreads :
    \/ AppendLock(t)
    \/ AppendFindTarget(t)
    \/ AppendGrow(t)
    \/ AppendCopy(t)
    \/ AppendUnlock(t)

SpecAppend2 == InitAppend2 /\ [][NextAppend2]_vars

----------------------------------------------------------------------------
(***************************************************************************)
(* A thread that calls embedlet_is_zeroed while another thread appends to  *)
(* the same store.  embedlet_is_zeroed takes the slot pointer from         *)
(* embedlet_get and then reads the floats one by one.                      *)
(***************************************************************************)
\* a thread about to call embedlet_is_zeroed(store, id)
IsZeroedCall(id) ==
  [pc |-> "get", id |-> id, j |-> 0, capacity |-> 0, rc |-> EMBEDLET_OK, result |-> FALSE]

\* const float *emb = embedlet_get(store, id); if (!emb) return true;
\* no lock is taken; the pointer is into the mapping of the current capacity
IsZeroedGet(t) ==
  /\ callers[t].pc = "get"
  /\ callers' = IF embedlet_get(store, disk, callers[t].id) = NULL
                  THEN [callers EXCEPT ![t].pc = "returned", ![t].result = TRUE]
                  ELSE [callers EXCEPT ![t].pc = "read", ![t].capacity = store.capacity]
  /\ UNCHANGED <<storeVars, mutex, pool, workers, searches>>

\* one pass of the loop of embedlet_is_zeroed_ptr: if (data[j] != 0.0f) return false;
\* When the store was remapped since embedlet_get the pointer is into an
\* unmapped region: the read ends the process or yields any value.
IsZeroedRead(t) ==
  /\ callers[t].pc = "read"
  /\ LET j == callers[t].j
     IN IF store.capacity # callers[t].capacity
          THEN \E rc \in {EMBEDLET_OK, SIGSEGV}, result \in BOOLEAN :
                 callers' = [callers EXCEPT
                   ![t].pc = "returned", ![t].rc = rc, ![t].result = result]
          ELSE IF SlotAt(disk, callers[t].id)[j + 1] # 0
            THEN callers' = [callers EXCEPT ![t].pc = "returned", ![t].result = FALSE]
          ELSE IF j + 1 < Dims
            THEN callers' = [callers EXCEPT ![t].j = j + 1]
          ELSE callers' = [callers EXCEPT ![t].pc = "returned", ![t].result = TRUE]
  /\ UNCHANGED <<storeVars, mutex, pool, workers, searches>>

\* an open store of 1 to MaxCount - 1 slots; thread 1 is about to call
\* is_zeroed on an id, thread 2 to append a vector
InitRace ==
  /\ \E count \in 1..(MaxCount - 1) :
       \E f \in [0..(count - 1) -> Vecs], full \in BOOLEAN :
         LET cap == IF full THEN count * embedlet_embedding_size ELSE InitialCapacity
         IN /\ store = [open |-> TRUE, capacity |-> cap,
                        file_size |-> count * embedlet_embedding_size, data |-> TRUE]
            /\ disk = [size |-> cap,
                       slots |-> [k \in {k \in 0..(count - 1) : ~embedlet_is_zeroed_ptr(f[k])}
                                    |-> f[k]]]
            /\ snap = [valid |-> TRUE, compact |-> FALSE, count |-> count, fl |-> disk]
  /\ ret = Ret("none", 0, NoVec, FALSE, EMBEDLET_OK, 0)
  /\ expect = <<>>
  /\ faulty = FALSE
  /\ mutex = NoOwner
  /\ \E id \in Ids, v \in Vecs, reuse \in BOOLEAN :
       callers = [t \in AppendThreads |->
                    IF t = 1 THEN IsZeroedCall(id) ELSE AppendCall(v, reuse)]
  /\ NoSearches

NextRace ==
  \E t \in AppendThreads :
    \/ IsZeroedGet(t)
    \/ IsZeroedRead(t)
    \/ AppendLock(t)
    \/ AppendFindTarget(t)
    \/ AppendGrow(t)
    \/ AppendCopy(t)
    \/ AppendUnlock(t)

SpecRace == InitRace /\ [][NextRace]_vars

----------------------------------------------------------------------------
(***************************************************************************)
(* The thread pool under multi-threaded searches.  Every region between a  *)
(* lock and an unlock of pool->mutex is one step; a thread blocked in      *)
(* pthread_cond_wait has released the mutex and re-tests its loop          *)
(* condition under the mutex after it wakes.  A work item is named by the  *)
(* task it carries, <<s, i>> for tasks[i] of the search of thread s.       *)
(***************************************************************************)
\* the threads that call embedlet_search
Searchers == {1, 2}

\* the vector at slot k of the searched store
PoolSlot(k) ==
  IF k % 4 = 0 THEN Vec2(20, 0)
  ELSE IF k % 4 = 1 THEN Vec2(12, 16)
  ELSE IF k % 4 = 2 THEN Vec2(0, 20)
  ELSE Zero

\* the query and the direction of the search of thread s
PoolQuery(s) == IF s = 1 THEN Vec2(20, 0) ELSE Vec2(12, 16)

PoolMost(s) == s = 1

\* the effective thread counts of the search of thread s
PoolThreadCounts(s) == IF s = 1 THEN {2} ELSE 2..MaxPoolThreads

\* the count of the searched store: no search is clamped to fewer threads
PoolCount == MaxPoolThreads + 1

\* a thread that has not called embedlet_search
IdleSearch ==
  [pc |-> "idle", threads |-> 0, i |-> 0, tasks |-> <<>>, freed |-> FALSE,
   stale |-> FALSE, rc |-> EMBEDLET_OK, count_out |-> 0, results |-> <<>>,
   again |-> FALSE]

\* tasks[i] after calloc: result_count = 0, local_results zeroed
NewTask ==
  [result_count |-> 0, local_results |-> <<>>, finished |-> FALSE, dropped |-> FALSE]

\* embedlet_pool_create(num_threads): the struct; every thread starts its loop
PoolCreate(num_threads) == [NoPool EXCEPT !.created = TRUE, !.num_threads = num_threads]

PoolThreads(num_threads) == [w \in 1..num_threads |-> [pc |-> "top", work |-> NoWork]]

\* a thread is inside embedlet_close
Closing == callers # <<>>

\* search up to the submit loop: the pool is created under store->mutex if
\* there is none; tasks = calloc(threads, ...)
SearchBegin(s, threads) ==
  /\ searches[s].pc = "idle"
  /\ store.open /\ ~Closing
  /\ MutexFree(mutex)
  /\ IF ~pool.created
       THEN /\ pool' = [PoolCreate(threads) EXCEPT !.creations = pool.creations + 1]
            /\ workers' = PoolThreads(threads)
       ELSE UNCHANGED <<pool, workers>>
  /\ searches' = [searches EXCEPT
        ![s].pc = "submit", ![s].threads = threads, ![s].i = 0,
        ![s].tasks = [k \in 1..threads |-> NewTask]]
  /\ UNCHANGED <<storeVars, mutex, callers>>

\* mutant: the signal of cond_work reaches no thread
WaitingWorkersUnseen == {}

\* the pool threads blocked in pthread_cond_wait(&pool->cond_work)
WaitingWorkers == {w \in DOMAIN workers : workers[w].pc = "cond_work"}

\* mutant: submit links the item and does not count it
EnqueueUncounted(p, work) ==
  [p EXCEPT
     !.items = [k \in (DOMAIN p.items) \cup {work} |->
                  IF k = work THEN [arg |-> work, next |-> NoWork]
                  ELSE IF k = p.work_tail THEN [p.items[k] EXCEPT !.next = work]
                  ELSE p.items[k]],
     !.work_head = IF p.work_tail # NoWork THEN p.work_head ELSE work,
     !.work_tail = work]

\* mutant: submit links the item in front of the queue
EnqueueAtHead(p, work) ==
  [p EXCEPT
     !.items = [k \in (DOMAIN p.items) \cup {work} |->
                  IF k = work THEN [arg |-> work, next |-> p.work_head]
                  ELSE p.items[k]],
     !.work_head = work,
     !.work_tail = IF p.work_tail # NoWork THEN p.work_tail ELSE work,
     !.pending_count = p.pending_count + 1]

\* work->next = NULL; link at work_tail (or at work_head); pending_count++
Enqueue(p, work) ==
  [p EXCEPT
     !.items = [k \in (DOMAIN p.items) \cup {work} |->
                  IF k = work THEN [arg |-> work, next |-> NoWork]
                  ELSE IF k = p.work_tail THEN [p.items[k] EXCEPT !.next = work]
                  ELSE p.items[k]],
     !.work_head = IF p.work_tail # NoWork THEN p.work_head ELSE work,
     !.work_tail = work,
     !.pending_count = p.pending_count + 1]

\* one pass of the submit loop: tasks[i] is filled in and
\* embedlet_pool_submit(pool, embedlet_search_worker, &tasks[i]) links it,
\* counts it and signals cond_work, which wakes one waiting pool thread
SearchSubmit(s) ==
  /\ searches[s].pc = "submit"
  /\ LET i == searches[s].i
     IN /\ pool' = Enqueue(pool, <<s, i>>)
        /\ searches' = [searches EXCEPT
              ![s].i = i + 1,
              ![s].pc = IF i + 1 < searches[s].threads THEN "submit" ELSE "wait"]
  /\ IF WaitingWorkers = {}
       THEN workers' = workers
       ELSE \E w \in WaitingWorkers : workers' = [workers EXCEPT ![w].pc = "top"]
  /\ UNCHANGED <<storeVars, mutex, callers>>

\* mutant: a submit that cannot allocate still counts the task as pending
SearchSubmitNoMemoryCounted(s) ==
  /\ searches[s].pc = "submit"
  /\ LET i == searches[s].i
     IN searches' = [searches EXCEPT
           ![s].tasks[i + 1].dropped = TRUE,
           ![s].i = i + 1,
           ![s].pc = IF i + 1 < searches[s].threads THEN "submit" ELSE "wait"]
  /\ pool' = [pool EXCEPT !.pending_count = pool.pending_count + 1]
  /\ UNCHANGED <<storeVars, mutex, callers, workers>>

\* one pass of the submit loop in which the malloc of the work item fails:
\* embedlet_pool_submit returns before it takes the mutex; tasks[i] keeps
\* result_count = 0 and the loop goes on
SearchSubmitNoMemory(s) ==
  /\ searches[s].pc = "submit"
  /\ LET i == searches[s].i
     IN searches' = [searches EXCEPT
           ![s].tasks[i + 1].dropped = TRUE,
           ![s].i = i + 1,
           ![s].pc = IF i + 1 < searches[s].threads THEN "submit" ELSE "wait"]
  /\ UNCHANGED <<storeVars, mutex, callers, pool, workers>>

\* mutant: the wait looks at the in-flight counter only
PoolBusyActiveOnly(p) == p.active_count > 0

\* while (pool->pending_count > 0 || pool->active_count > 0)
PoolBusy(p) == p.pending_count > 0 \/ p.active_count > 0

\* embedlet_pool_wait: the test of the loop under the mutex; the thread
\* blocks on cond_done or returns to the search
SearchWait(s) ==
  /\ searches[s].pc = "wait"
  /\ searches' = [searches EXCEPT ![s].pc = IF PoolBusy(pool) THEN "cond_done" ELSE "merge"]
  /\ UNCHANGED <<storeVars, mutex, callers, pool, workers>>

\* pthread_cond_wait(&pool->cond_done) returns without a broadcast, as
\* POSIX allows; the search re-tests the loop of embedlet_pool_wait
SearchSpuriousWake(s) ==
  /\ searches[s].pc = "cond_done"
  /\ searches' = [searches EXCEPT ![s].pc = "wait"]
  /\ UNCHANGED <<storeVars, mutex, callers, pool, workers>>

RECURSIVE MergeTasks(_, _, _, _, _, _)
\* for (i = 0; i < threads; i++) for (j = 0; j < tasks[i].result_count; j++) push
MergeTasks(tasks, i, threads, heap, n, most_similar) ==
  IF i < threads
    THEN MergeTasks(tasks, i + 1, threads,
                    PushAll(heap,
                            SubSeq(tasks[i + 1].local_results, 1, tasks[i + 1].result_count),
                            0, n, most_similar),
                    n, most_similar)
    ELSE heap

\* after embedlet_pool_wait: the merge of the tasks' heaps, the frees, the
\* qsort and count_out
SearchMerge(s) ==
  /\ searches[s].pc = "merge"
  /\ \E results \in Qsort(MergeTasks(searches[s].tasks, 0, searches[s].threads, <<>>,
                                      MaxN, PoolMost(s)),
                           PoolMost(s)) :
       searches' = [searches EXCEPT
         ![s].pc = "done", ![s].freed = TRUE, ![s].rc = EMBEDLET_OK,
         ![s].count_out = Len(results), ![s].results = results]
  /\ UNCHANGED <<storeVars, mutex, callers, pool, workers>>

\* mutant: a pool thread with no work blocks again although shutdown is set
WorkerTopIgnoresShutdown(w) ==
  /\ workers[w].pc = "top"
  /\ IF pool.work_head = NoWork
       THEN /\ workers' = [workers EXCEPT ![w].pc = "cond_work"]
            /\ pool' = pool
       ELSE LET work == pool.work_head
                head == pool.items[work].next
            IN /\ pool' = [pool EXCEPT
                     !.work_head = head,
                     !.work_tail = IF head = NoWork THEN NoWork ELSE pool.work_tail,
                     !.active_count = pool.active_count + 1]
               /\ workers' = [workers EXCEPT ![w].pc = "run", ![w].work = work]
  /\ UNCHANGED <<storeVars, mutex, callers, searches>>

\* the top of the loop of embedlet_pool_worker, under the mutex: block while
\* there is no work and no shutdown, return on shutdown with no work, else
\* unlink the head item and count it in flight
WorkerTop(w) ==
  /\ workers[w].pc = "top"
  /\ IF ~pool.shutdown /\ pool.work_head = NoWork
       THEN /\ workers' = [workers EXCEPT ![w].pc = "cond_work"]
            /\ pool' = pool
       ELSE IF pool.shutdown /\ pool.work_head = NoWork
       THEN /\ workers' = [workers EXCEPT ![w].pc = "exited"]
            /\ pool' = pool
       ELSE LET work == pool.work_head
                head == pool.items[work].next
            IN /\ pool' = [pool EXCEPT
                     !.work_head = head,
                     !.work_tail = IF head = NoWork THEN NoWork ELSE pool.work_tail,
                     !.active_count = pool.active_count + 1]
               /\ workers' = [workers EXCEPT ![w].pc = "run", ![w].work = work]
  /\ UNCHANGED <<storeVars, mutex, callers, searches>>

\* pthread_cond_wait(&pool->cond_work) returns without a signal
WorkerSpuriousWake(w) ==
  /\ workers[w].pc = "cond_work"
  /\ workers' = [workers EXCEPT ![w].pc = "top"]
  /\ UNCHANGED <<storeVars, mutex, callers, pool, searches>>

\* work->func(work->arg); free(work);  The callback is embedlet_search_worker
\* on tasks[i] of search s: it fills local_results and sets result_count.
\* When the search has freed its tasks the callback reads and writes freed
\* memory: either the writes land there and the thread goes on, or the
\* process is ended inside the callback.
WorkerRun(w) ==
  /\ workers[w].pc = "run"
  /\ LET s == workers[w].work[1]
         i == workers[w].work[2]
         total == embedlet_count(store)
         local == embedlet_search_worker(disk, PoolQuery(s), embedlet_norm(PoolQuery(s)),
                                         i, total, searches[s].threads, MaxN, PoolMost(s))
         freed == [k \in (DOMAIN pool.items) \ {workers[w].work} |-> pool.items[k]]
     IN IF searches[s].freed
          THEN \/ /\ searches' = [searches EXCEPT ![s].stale = TRUE]
                  /\ pool' = [pool EXCEPT !.items = freed]
                  /\ workers' = [workers EXCEPT ![w].pc = "finish"]
               \/ /\ searches' = [t \in DOMAIN searches |->
                                    [searches[t] EXCEPT !.pc = "killed"]]
                  /\ pool' = pool
                  /\ workers' = [v \in DOMAIN workers |->
                                   [workers[v] EXCEPT !.pc = IF v = w THEN "fault" ELSE "killed"]]
          ELSE /\ searches' = [searches EXCEPT ![s].tasks[i + 1] =
                      [@ EXCEPT !.result_count = Len(local), !.local_results = local,
                                !.finished = TRUE]]
               /\ pool' = [pool EXCEPT !.items = freed]
               /\ workers' = [workers EXCEPT ![w].pc = "finish"]
  /\ UNCHANGED <<storeVars, mutex, callers>>

\* mutant: a pool thread returns from its loop after one work item
WorkerFinishExits(w) ==
  /\ workers[w].pc = "finish"
  /\ LET p == [pool EXCEPT !.active_count = pool.active_count - 1,
                          !.pending_count = pool.pending_count - 1]
     IN /\ pool' = p
        /\ searches' = IF p.pending_count = 0 /\ p.active_count = 0
                         THEN [s \in DOMAIN searches |->
                                 IF searches[s].pc = "cond_done"
                                   THEN [searches[s] EXCEPT !.pc = "wait"]
                                   ELSE searches[s]]
                         ELSE searches
  /\ workers' = [workers EXCEPT ![w].pc = "exited", ![w].work = NoWork]
  /\ UNCHANGED <<storeVars, mutex, callers>>

\* active_count--; pending_count--; broadcast cond_done when both are 0
WorkerFinish(w) ==
  /\ workers[w].pc = "finish"
  /\ LET p == [pool EXCEPT !.active_count = pool.active_count - 1,
                          !.pending_count = pool.pending_count - 1]
     IN /\ pool' = p
        /\ searches' = IF p.pending_count = 0 /\ p.active_count = 0
                         THEN [s \in DOMAIN searches |->
                                 IF searches[s].pc = "cond_done"
                                   THEN [searches[s] EXCEPT !.pc = "wait"]
                                   ELSE searches[s]]
                         ELSE searches
  /\ workers' = [workers EXCEPT ![w].pc = "top", ![w].work = NoWork]
  /\ UNCHANGED <<storeVars, mutex, callers>>

\* an open store of PoolCount slots that appends and a delete have filled,
\* no pool yet, and the threads of Searchers about to search it
InitPool ==
  /\ store = [open |-> TRUE, capacity |-> InitialCapacity,
              file_size |-> PoolCount * embedlet_embedding_size, data |-> TRUE]
  /\ disk = [size |-> InitialCapacity,
             slots |-> [k \in {k \in 0..(PoolCount - 1) : ~embedlet_is_zeroed_ptr(PoolSlot(k))}
                          |-> PoolSlot(k)]]
  /\ ret = Ret("none", 0, NoVec, FALSE, EMBEDLET_OK, 0)
  /\ snap = NoSnap
  /\ expect = <<>>
  /\ faulty = FALSE
  /\ mutex = NoOwner
  /\ callers = <<>>
  /\ pool = NoPool
  /\ workers = <<>>
  /\ searches = [s \in Searchers |-> IdleSearch]

NextPool ==
  \/ \E s \in Searchers : \E threads \in PoolThreadCounts(s) : SearchBegin(s, threads)
  \/ \E s \in Searchers : SearchSubmit(s)
  \/ \E s \in Searchers : SearchWait(s)
  \/ \E s \in Searchers : SearchSpuriousWake(s)
  \/ \E s \in Searchers : SearchMerge(s)
  \/ \E w \in DOMAIN workers : WorkerTop(w)
  \/ \E w \in DOMAIN workers : WorkerSpuriousWake(w)
  \/ \E w \in DOMAIN workers : WorkerRun(w)
  \/ \E w \in DOMAIN workers : WorkerFinish(w)

SpecPool == InitPool /\ [][NextPool]_vars

\* a step of pool thread w under pool->mutex that needs no wake-up: the
\* scheduler runs every thread that is not blocked in pthread_cond_wait
WorkerStep(w) ==
  /\ w \in DOMAIN workers
  /\ (WorkerTop(w) \/ WorkerFinish(w))

\* pool thread w is inside work->func(work->arg): the callback runs, or the
\* process was ended in it
InCallback(w) == w \in DOMAIN workers /\ workers[w].pc \in {"run", "fault"}

\* a step of the search of thread s after its tasks are allocated
SearchStep(s) == SearchSubmit(s) \/ SearchWait(s) \/ SearchMerge(s)

\* a step of the search of thread s when the malloc of submit may fail
SearchStepNoMemory(s) == SearchStep(s) \/ SearchSubmitNoMemory(s)

\* fair scheduling of the threads; a spurious wake-up may never happen.
\* WorkerRun(w) is enabled when the callback runs and ends it, so weak
\* fairness of WorkerRun(w) with callbacks that return is that no thread
\* stays in the callback forever.
SpecPoolFair ==
  /\ InitPool /\ [][NextPool]_vars
  /\ \A w \in 1..MaxPoolThreads : WF_vars(WorkerStep(w))
  /\ \A w \in 1..MaxPoolThreads : []<>(~InCallback(w))
  /\ \A s \in Searchers : WF_vars(SearchStep(s))

----------------------------------------------------------------------------
(***************************************************************************)
(* The life of the pool: threads that search the store again and again,   *)
(* with the entry of embedlet_search taken apart into the steps under      *)
(* store->mutex, and embedlet_close after the last search has returned.    *)
(* pool.creations counts the calls of embedlet_pool_create; again is set   *)
(* in a thread that has returned from a search.                            *)
(***************************************************************************)
\* the num_threads arguments of the searches of thread s
LifeThreadArgs(s) == IF s = 1 THEN {2} ELSE 1..MaxPoolThreads

\* embedlet_search up to the lock: an empty store and the single-threaded
\* scan return from here
SearchEnter(s, num_threads) ==
  /\ searches[s].pc = "idle"
  /\ store.open /\ ~Closing
  /\ LET total == embedlet_count(store)
         threads == EffectiveThreads(num_threads, 1, total)
     IN IF total = 0
          THEN searches' = [searches EXCEPT ![s].pc = "done", ![s].threads = 0,
                                            ![s].count_out = 0, ![s].results = <<>>]
          ELSE IF threads = 1
          THEN \E results \in Qsort(SearchHeap(disk, PoolQuery(s), total, 1, MaxN, PoolMost(s)),
                                    PoolMost(s)) :
                 searches' = [searches EXCEPT ![s].pc = "done", ![s].threads = 1,
                                              ![s].count_out = Len(results),
                                              ![s].results = results]
          ELSE searches' = [searches EXCEPT ![s].pc = "lock", ![s].threads = threads]
  /\ UNCHANGED <<storeVars, mutex, callers, pool, workers>>

\* embedlet_mutex_lock(&store->mutex)
SearchLockStore(s) ==
  /\ searches[s].pc = "lock"
  /\ MutexFree(mutex)
  /\ mutex' = s
  /\ searches' = [searches EXCEPT ![s].pc = "check"]
  /\ UNCHANGED <<storeVars, callers, pool, workers>>

\* mutant: every search creates a pool of its own
SearchCheckPoolPerCall(s) ==
  /\ searches[s].pc = "check"
  /\ searches' = [searches EXCEPT ![s].pc = "create"]
  /\ UNCHANGED <<storeVars, mutex, callers, pool, workers>>

\* if (!store->pool)
SearchCheckPool(s) ==
  /\ searches[s].pc = "check"
  /\ searches' = [searches EXCEPT ![s].pc = IF ~pool.created THEN "create" ELSE "unlock"]
  /\ UNCHANGED <<storeVars, mutex, callers, pool, workers>>

\* store->pool = embedlet_pool_create(threads)
SearchCreatePool(s) ==
  /\ searches[s].pc = "create"
  /\ pool.creations < MaxPools
  /\ pool' = [PoolCreate(searches[s].threads) EXCEPT !.creations = pool.creations + 1]
  /\ workers' = PoolThreads(searches[s].threads)
  /\ searches' = [searches EXCEPT ![s].pc = "unlock"]
  /\ UNCHANGED <<storeVars, mutex, callers>>

\* pool = store->pool; embedlet_mutex_unlock(&store->mutex); tasks = calloc(...)
SearchUnlockStore(s) ==
  /\ searches[s].pc = "unlock"
  /\ mutex' = NoOwner
  /\ searches' = [searches EXCEPT
        ![s].pc = "submit", ![s].i = 0,
        ![s].tasks = [k \in 1..searches[s].threads |-> NewTask]]
  /\ UNCHANGED <<storeVars, callers, pool, workers>>

\* embedlet_search has returned; the thread is free to search again
SearchReturn(s) ==
  /\ searches[s].pc = "done"
  /\ searches' = [searches EXCEPT ![s] = [IdleSearch EXCEPT !.again = TRUE]]
  /\ UNCHANGED <<storeVars, mutex, callers, pool, workers>>

\* embedlet_close(store, false) when no call is in progress, up to the joins
\* of embedlet_pool_destroy: shutdown = true and the broadcast of cond_work.
\* Without a pool close runs to its end.
CloseBegin ==
  /\ store.open /\ ~Closing
  /\ \A s \in Searchers : searches[s].pc \in {"idle", "done"}
  /\ IF pool.created
       THEN /\ pool' = [pool EXCEPT !.shutdown = TRUE]
            /\ workers' = [w \in DOMAIN workers |->
                             IF workers[w].pc = "cond_work"
                               THEN [workers[w] EXCEPT !.pc = "top"]
                               ELSE workers[w]]
            /\ callers' = <<[pc |-> "join"]>>
            /\ store' = store
       ELSE /\ callers' = <<[pc |-> "closed"]>>
            /\ store' = ClosedStore
            /\ UNCHANGED <<pool, workers>>
  /\ UNCHANGED <<disk, ret, snap, expect, faulty, mutex, searches>>

\* every pthread_join has returned: the pool is freed, store->pool = NULL,
\* the file is unmapped and closed and the store freed
CloseJoin ==
  /\ Closing /\ callers[1].pc = "join"
  /\ \A w \in DOMAIN workers : workers[w].pc = "exited"
  /\ pool' = [NoPool EXCEPT !.creations = pool.creations]
  /\ workers' = <<>>
  /\ callers' = <<[pc |-> "closed"]>>
  /\ store' = ClosedStore
  /\ UNCHANGED <<disk, ret, snap, expect, faulty, mutex, searches>>

\* an open store, empty or of PoolCount slots, no pool yet
InitPoolLife ==
  /\ \E count \in {0, PoolCount} :
       /\ store = [open |-> TRUE, capacity |-> IF count = 0 THEN 0 ELSE InitialCapacity,
                   file_size |-> count * embedlet_embedding_size, data |-> count > 0]
       /\ disk = [size |-> IF count = 0 THEN 0 ELSE InitialCapacity,
                  slots |-> [k \in {k \in 0..(count - 1) : ~embedlet_is_zeroed_ptr(PoolSlot(k))}
                               |-> PoolSlot(k)]]
  /\ ret = Ret("none", 0, NoVec, FALSE, EMBEDLET_OK, 0)
  /\ snap = NoSnap
  /\ expect = <<>>
  /\ faulty = FALSE
  /\ mutex = NoOwner
  /\ callers = <<>>
  /\ pool = NoPool
  /\ workers = <<>>
  /\ searches = [s \in Searchers |-> IdleSearch]

\* the steps of the threads after the entry of a search
PoolLifeSteps ==
  \/ \E s \in Searchers : SearchLockStore(s)
  \/ \E s \in Searchers : SearchCheckPool(s)
  \/ \E s \in Searchers : SearchCreatePool(s)
  \/ \E s \in Searchers : SearchUnlockStore(s)
  \/ \E s \in Searchers : SearchSubmit(s)
  \/ \E s \in Searchers : SearchWait(s)
  \/ \E s \in Searchers : SearchSpuriousWake(s)
  \/ \E s \in Searchers : SearchMerge(s)
  \/ \E s \in Searchers : SearchReturn(s)
  \/ \E w \in DOMAIN workers : WorkerTop(w)
  \/ \E w \in DOMAIN workers : WorkerSpuriousWake(w)
  \/ \E w \in DOMAIN workers : WorkerRun(w)
  \/ \E w \in DOMAIN workers : WorkerFinish(w)
  \/ CloseBegin
  \/ CloseJoin

NextPoolLife ==
  \/ \E s \in Searchers : \E num_threads \in LifeThreadArgs(s) : SearchEnter(s, num_threads)
  \/ PoolLifeSteps

\* the scheduling of SpecPoolFair; no thread is required to call search or
\* close, and the store mutex is not required to be handed over fairly
SpecPoolLife ==
  /\ InitPoolLife /\ [][NextPoolLife]_vars
  /\ \A w \in 1..MaxPoolThreads : WF_vars(WorkerStep(w))
  /\ \A w \in 1..MaxPoolThreads : []<>(~InCallback(w))
  /\ \A s \in Searchers : WF_vars(SearchStep(s))

\* a search that is called when every earlier search has returned
SearchEnterAlone(s, num_threads) ==
  /\ \A t \in Searchers \ {s} : searches[t].pc \in {"idle", "done"}
  /\ SearchEnter(s, num_threads)

NextPoolSeq ==
  \/ \E s \in Searchers : \E num_threads \in LifeThreadArgs(s) : SearchEnterAlone(s, num_threads)
  \/ PoolLifeSteps

\* searches one after another on one store, under the scheduling of
\* SpecPoolFair
SpecPoolSeq ==
  /\ InitPoolLife /\ [][NextPoolSeq]_vars
  /\ \A w \in 1..MaxPoolThreads : WF_vars(WorkerStep(w))
  /\ \A w \in 1..MaxPoolThreads : []<>(~InCallback(w))
  /\ \A s \in Searchers : WF_vars(SearchStep(s))

\* the searches of SpecPool when the malloc of a work item may fail
NextPoolAlloc ==
  \/ NextPool
  \/ \E s \in Searchers : SearchSubmitNoMemory(s)

SpecPoolAlloc ==
  /\ InitPool /\ [][NextPoolAlloc]_vars
  /\ \A w \in 1..MaxPoolThreads : WF_vars(WorkerStep(w))
  /\ \A w \in 1..MaxPoolThreads : []<>(~InCallback(w))
  /\ \A s \in Searchers : WF_vars(SearchStepNoMemory(s))

----------------------------------------------------------------------------
(***************************************************************************)
(* Searches that run out of memory in their task loop, and the close that  *)
(* follows them: the pool is destroyed with whatever the searches left in  *)
(* it.                                                                     *)
(***************************************************************************)
\* one pass of the submit loop in which the calloc of tasks[i].local_results
\* fails: the buffers of the earlier tasks and the task array are freed and
\* search returns EMBEDLET_ERR_ALLOC, without a call of embedlet_pool_wait
SearchLocalAllocFail(s) ==
  /\ searches[s].pc = "submit"
  /\ searches' = [searches EXCEPT
        ![s].pc = "done", ![s].freed = TRUE, ![s].rc = EMBEDLET_ERR_ALLOC]
  /\ UNCHANGED <<storeVars, mutex, callers, pool, workers>>

NextPoolAbort ==
  \/ NextPool
  \/ \E s \in Searchers : SearchLocalAllocFail(s)
  \/ CloseBegin
  \/ CloseJoin

\* the scheduling of SpecPoolFair, callbacks that return, and a closing
\* thread that goes on once its joins can return
SpecPoolAbort ==
  /\ InitPool /\ [][NextPoolAbort]_vars
  /\ \A w \in 1..MaxPoolThreads : WF_vars(WorkerStep(w))
  /\ \A w \in 1..MaxPoolThreads : []<>(~InCallback(w))
  /\ \A s \in Searchers : WF_vars(SearchStep(s))
  /\ WF_vars(CloseJoin)

----------------------------------------------------------------------------
(***************************************************************************)
(* embedlet_search from its entry to the ranges of its tasks, on stores of *)
(* up to MaxTaskCount slots: the thread count it settles on, then one pass *)
(* of the task loop per step.  searches[1] is the call.                    *)
(***************************************************************************)
\* the num_threads arguments: a negative one, AUTO, SINGLE and larger ones
TaskThreadArgs == (-1)..(MaxTaskCount + 1)

\* a call of embedlet_search(store, query, n, most_similar, num_threads, ...)
\* on a machine of cpu_count processors, at the read of the count
TaskCall(num_threads, cpu_count) ==
  [pc |-> "threads", num_threads |-> num_threads, cpu_count |-> cpu_count,
   threads |-> 0, i |-> 0, tasks |-> <<>>]

\* int threads = num_threads; ... if ((size_t)threads > total) threads = (int)total;
\* With one thread the only range is that of the scan loop.
TaskThreads ==
  /\ searches[1].pc = "threads"
  /\ LET total == embedlet_count(store)
         threads == EffectiveThreads(searches[1].num_threads, searches[1].cpu_count, total)
     IN searches' = [searches EXCEPT
          ![1].threads = threads,
          ![1].pc = IF threads = 1 THEN "ready" ELSE "setup",
          ![1].tasks = IF threads = 1 THEN <<[start |-> 0, end |-> total]>> ELSE <<>>]
  /\ UNCHANGED <<storeVars, mutex, callers, pool, workers>>

\* one pass of for (int i = 0; i < threads; i++): tasks[i].start and tasks[i].end
TaskSetup ==
  /\ searches[1].pc = "setup"
  /\ LET total == embedlet_count(store)
         threads == searches[1].threads
         i == searches[1].i
     IN searches' = [searches EXCEPT
          ![1].tasks = Append(@, [start |-> TaskStart(i, total, threads),
                                  end |-> TaskEnd(i, total, threads)]),
          ![1].i = i + 1,
          ![1].pc = IF i + 1 < threads THEN "setup" ELSE "ready"]
  /\ UNCHANGED <<storeVars, mutex, callers, pool, workers>>

\* an open store of 1 to MaxTaskCount slots and a thread that has called
\* embedlet_search on it
InitTasks ==
  /\ \E count \in 1..MaxTaskCount :
       /\ store = [open |-> TRUE, capacity |-> InitialCapacity,
                   file_size |-> count * embedlet_embedding_size, data |-> TRUE]
       /\ disk = [size |-> InitialCapacity,
                  slots |-> [k \in {k \in 0..(count - 1) : ~embedlet_is_zeroed_ptr(PoolSlot(k))}
                               |-> PoolSlot(k)]]
  /\ ret = Ret("none", 0, NoVec, FALSE, EMBEDLET_OK, 0)
  /\ snap = NoSnap
  /\ expect = <<>>
  /\ faulty = FALSE
  /\ mutex = NoOwner
  /\ callers = <<>>
  /\ pool = NoPool
  /\ workers = <<>>
  /\ \E num_threads \in TaskThreadArgs :
       \E cpu_count \in (IF num_threads = EMBEDLET_AUTO_THREADS THEN CpuCounts ELSE {1}) :
         searches = <<TaskCall(num_threads, cpu_count)>>

NextTasks == TaskThreads \/ TaskSetup

SpecTasks == InitTasks /\ [][NextTasks]_vars

----------------------------------------------------------------------------
(***************************************************************************)
(* The bounded heaps on their own: pushes of any scores onto an initially  *)
(* empty result array of capacity max_size.  ret is the last push: the     *)
(* array before and after it and the scores pushed so far.                 *)
(***************************************************************************)
\* the scores pushed
HeapScores == 0..MaxScore

\* an empty array of capacity max_size, heap_size = 0
HeapCall(max_size, most_similar) ==
  [op |-> "heap", most |-> most_similar, max_size |-> max_size, id |-> 0, score |-> 0,
   before |-> <<>>, results |-> <<>>, pushed |-> <<>>]

\* embedlet_heap_push_min / _max (results, &heap_size, max_size, id, score);
\* the ids are those of a scan: the number of the push
HeapPushCall(score) ==
  /\ ret.op \in {"heap", "push"}
  /\ Len(ret.pushed) < MaxPushes
  /\ ret' = [ret EXCEPT
        !.op = "push", !.id = Len(ret.pushed), !.score = score,
        !.before = ret.results,
        !.results = HeapPush(ret.results, ret.max_size, Len(ret.pushed), score, ret.most),
        !.pushed = Append(ret.pushed, score)]
  /\ UNCHANGED <<store, disk, snap, expect, faulty, threadVars>>

InitHeap ==
  /\ store = ClosedStore
  /\ disk = [size |-> 0, slots |-> <<>>]
  /\ \E max_size \in 1..MaxHeap, most_similar \in BOOLEAN :
       ret = HeapCall(max_size, most_similar)
  /\ snap = NoSnap
  /\ expect = <<>>
  /\ faulty = FALSE
  /\ Sequential

NextHeap == \E score \in HeapScores : HeapPushCall(score)

SpecHeap == InitHeap /\ [][NextHeap]_vars

----------------------------------------------------------------------------
(***************************************************************************)
(* Properties of the store operations, checked under Spec.                 *)
(***************************************************************************)
\* the ids below the current count
Live == 0..(Count - 1)

\* the slot as embedlet_get shows it in the current state
Get(i) == embedlet_get(store, disk, i)

\* C1: after close(compact = false) and a reopen of the same path with the
\* same dims, count equals the count just before the close and every slot
\* below it holds the floats it held just before the close.
C1_ReopenPreservesStore ==
  (ret.op = "open" /\ ret.rc = EMBEDLET_OK /\ snap.valid /\ ~snap.compact) =>
    /\ Count = snap.count
    /\ \A i \in 0..(snap.count - 1) : Get(i) = SlotAt(snap.fl, i)

\* C2: for every id below count that an operation has targeted, get(id) is
\* the vector of the most recent append or replace that targeted it, or all
\* zeros when the most recent operation on it was a delete; compact does not
\* disturb this.
C2_GetYieldsLastWrite ==
  store.open => \A i \in DOMAIN expect : i < Count => Get(i) = expect[i]

C2_Witness ==
  /\ store.open
  /\ ret.op = "compact"
  /\ Count >= 2
  /\ \E i \in DOMAIN expect : i < Count /\ expect[i] = Zero
  /\ \E i \in DOMAIN expect : i < Count /\ expect[i] = LastVec
  /\ \E i \in DOMAIN expect : i >= Count

\* C6: a successful append(v, reuse = false) on a store with count = c
\* returns id c, makes count c + 1, leaves v in slot c and leaves every slot
\* below c as it was.
C6_AppendAtEnd ==
  [][(ret'.op = "append" /\ ~ret'.flag /\ ret'.rc = EMBEDLET_OK) =>
       /\ ret'.out = Count
       /\ Count' = Count + 1
       /\ embedlet_get(store', disk', Count) = ret'.v
       /\ \A i \in Live : embedlet_get(store', disk', i) = Get(i)]_vars

C6_Witness ==
  /\ ret.op = "append" /\ ~ret.flag /\ ret.rc = EMBEDLET_OK
  /\ ret.out = 2 /\ Count = 3
  /\ \E i \in Live : embedlet_is_zeroed_ptr(Get(i))

\* C7: a successful append(v, reuse = true) returns the smallest id below
\* count whose slot is all zero when there is one, writes v there and leaves
\* count alone; when no slot is all zero it returns the old count, count
\* grows by one and v is in the new slot.  Every other slot is as it was.
C7_AppendReuse ==
  [][(ret'.op = "append" /\ ret'.flag /\ ret'.rc = EMBEDLET_OK) =>
       LET zs == {i \in Live : embedlet_is_zeroed_ptr(SlotAt(disk, i))}
       IN /\ IF zs # {}
               THEN /\ ret'.out \in zs
                    /\ \A j \in zs : ret'.out <= j
                    /\ Count' = Count
               ELSE /\ ret'.out = Count
                    /\ Count' = Count + 1
          /\ embedlet_get(store', disk', ret'.out) = ret'.v
          /\ \A i \in Live \ {ret'.out} : embedlet_get(store', disk', i) = Get(i)]_vars

C7_Witness ==
  /\ ret.op = "append" /\ ret.flag /\ ret.rc = EMBEDLET_OK
  /\ ret.out = 1 /\ Count = 3
  /\ ret.v # Zero
  /\ embedlet_is_zeroed_ptr(Get(2))

\* C8: delete(id) with id < count succeeds and zeroes exactly slot id:
\* the slot reads all zero, count is unchanged, every other slot is unchanged.
C8_DeleteZeroesOneSlot ==
  [][(ret'.op = "delete" /\ ret'.id < Count) =>
       /\ ret'.rc = EMBEDLET_OK
       /\ embedlet_get(store', disk', ret'.id) = Zero
       /\ embedlet_is_zeroed(store', disk', ret'.id)
       /\ Count' = Count
       /\ \A i \in Live \ {ret'.id} : embedlet_get(store', disk', i) = Get(i)]_vars

C8_Witness ==
  /\ ret.op = "delete" /\ ret.rc = EMBEDLET_OK /\ ret.id = 1
  /\ Count = 3
  /\ Get(0) = LastVec /\ Get(2) = FirstVec
  /\ expect[1] = Zero

\* C9: replace(id, data) and delete(id) with id >= count, an empty store
\* included, return the invalid-id error and leave count, file_size,
\* capacity, the mapping and every slot of the file as they were.
C9_InvalidIdChangesNothing ==
  [][(ret'.op \in {"replace", "delete"} /\ ret'.id >= Count) =>
       /\ ret'.rc = EMBEDLET_ERR_INVALID_ID
       /\ store' = store
       /\ disk' = disk]_vars

C9_Witness ==
  /\ ret.op = "replace" /\ ret.rc = EMBEDLET_ERR_INVALID_ID
  /\ store.open /\ Count >= 1 /\ ret.id = Count
  /\ ret.v # Zero

\* C10: after a successful compact the new count is at most the old one and
\* is the largest k <= old count with k = 0 or slot k-1 not all zero; so
\* count is 0 or the last slot is not all zero.
C10_CompactDropsZeroTail ==
  [][(ret'.op = "compact" /\ ret'.rc = EMBEDLET_OK) =>
       /\ Count' <= Count
       /\ Count' = 0 \/ ~embedlet_is_zeroed_ptr(SlotAt(disk', Count' - 1))
       /\ Count' = 0 \/ ~embedlet_is_zeroed_ptr(SlotAt(disk, Count' - 1))
       /\ \A k \in (Count' + 1)..Count : embedlet_is_zeroed_ptr(SlotAt(disk, k - 1))]_vars

C10_Witness ==
  /\ ret.op = "compact" /\ ret.rc = EMBEDLET_OK
  /\ Count = 2 /\ disk.size = 2 * embedlet_embedding_size
  /\ embedlet_is_zeroed_ptr(Get(0))
  /\ \E i \in DOMAIN expect : i >= Count

\* C11: a successful compact changes no slot below the new count: every id
\* below the new count holds the same floats as before the compact, so an
\* all-zero slot in the interior stays all zero at the same id.
C11_CompactKeepsLowerSlots ==
  [][(ret'.op = "compact" /\ ret'.rc = EMBEDLET_OK) =>
       \A i \in 0..(Count' - 1) :
         /\ embedlet_get(store', disk', i) = Get(i)
         /\ SlotAt(disk', i) = SlotAt(disk, i)]_vars

C11_Witness ==
  /\ ret.op = "compact" /\ ret.rc = EMBEDLET_OK
  /\ Count = 3 /\ disk.size = 3 * embedlet_embedding_size
  /\ Get(0) = FirstVec /\ Get(1) = Zero /\ Get(2) = LastVec

\* C12: after close(compact = true) and a reopen of the same path with the
\* same dims, count is the largest k such that slot k-1 was not all zero
\* just before the close (0 when every slot was all zero), so the reopened
\* store has no trailing all-zero slot.
C12_CloseCompactDropsTail ==
  (ret.op = "open" /\ ret.rc = EMBEDLET_OK /\ snap.valid /\ snap.compact) =>
    LET nz == {k \in 1..snap.count : ~embedlet_is_zeroed_ptr(SlotAt(snap.fl, k - 1))}
    IN /\ \A k \in nz : k <= Count
       /\ Count \in nz \cup {0}

\* C13: after a public operation (open, append, replace, delete, compact)
\* has returned successfully, the byte length of the backing file on disk
\* is count * Dims * 4.
C13_FileLengthIsCount ==
  (store.open /\ ret.op \in {"open", "append", "replace", "delete", "compact"}
     /\ ret.rc = EMBEDLET_OK) =>
    disk.size = Count * Dims * SizeofFloat

\* C14: in every state a public operation observes, file_size is an exact
\* multiple of Dims * 4, whatever opens, appends, replaces, deletes,
\* compacts, closes and reopens came before on a file that only this store
\* wrote with this Dims.
C14_FileSizeIsWholeSlots ==
  store.open => store.file_size % (Dims * SizeofFloat) = 0

\* C15: in every state between public operations in which the file is
\* mapped (data is not NULL), the mapped capacity is at least file_size;
\* also after operations in which ftruncate or mmap failed.
C15_CapacityCoversFileSize ==
  (store.open /\ store.data) => store.capacity >= store.file_size

C15_Witness ==
  /\ store.open /\ store.data
  /\ ret.op = "append" /\ ret.rc = EMBEDLET_OK
  /\ Count = 2 /\ store.capacity = store.file_size
  /\ disk.size = store.capacity

\* C18: in every reachable state of an open store and for every id i,
\* is_zeroed(i) is true if and only if i >= count or all Dims floats of
\* slot i are zero.
C18_IsZeroedIff ==
  store.open =>
    \A i \in Ids \cup {Count} :
      embedlet_is_zeroed(store, disk, i) <=>
        (i >= Count \/ embedlet_is_zeroed_ptr(SlotAt(disk, i)))

\* C22: when the compaction inside close(store, compact = true) fails in
\* ftruncate or mmap, close returns that error code, not EMBEDLET_OK: the
\* code close returns is the code of a compaction that leaves the file as
\* the close left it.
C22_CloseReturnsCompactError ==
  [][(ret'.op = "close" /\ ret'.flag) =>
       \E tok \in FaultChoices, mok \in FaultChoices :
         /\ disk' = CompactStep(store, disk, tok, mok).fl
         /\ ret'.rc = CompactStep(store, disk, tok, mok).err]_vars

\* C23: when append or compact returns the code of a failed resize or
\* remap, file_size, and so count, is what it was before the call.
C23_FailedCallKeepsFileSize ==
  [][(ret'.op \in {"append", "compact"}
        /\ ret'.rc \in {EMBEDLET_ERR_TRUNCATE, EMBEDLET_ERR_MMAP}) =>
       /\ store'.file_size = store.file_size
       /\ Count' = Count]_vars

\* C24: in a state where a failed resize or remap has left the store
\* without a mapping while count > 0, a replace or delete of a valid id and
\* a compact return an error code; they do not read or write slot data
\* through the absent mapping.
C24_NoAccessWithoutMapping ==
  [][(Unmapped(store)
        /\ \/ ret'.op = "compact"
           \/ ret'.op \in {"replace", "delete"} /\ ~InvalidId(store, ret'.id)) =>
       /\ ret'.rc < EMBEDLET_OK
       /\ store'.open
       /\ disk' = disk]_vars

\* the argument of the embedlet_ensure_capacity call that an append to the
\* end makes in the current state
NeededBytes == store.file_size + embedlet_embedding_size

\* the store after that call, for the given outcomes of ftruncate and mmap
Ensured(tok, mok) == embedlet_ensure_capacity(store, disk, NeededBytes, tok, mok)

\* cap is the first value >= bytes among start, 2 * start, 4 * start, ...
FirstDoubling(cap, start, bytes) ==
  \E k \in 0..MaxDoublings :
    /\ cap = start * 2^k
    /\ cap >= bytes
    /\ k = 0 \/ start * 2^(k - 1) < bytes

\* C29 as stated: whenever ensure_capacity(bytes) is called with bytes above
\* the mapped capacity and succeeds, the new capacity is the first value
\* >= bytes reached by doubling from max(capacity, 4096), also for prior
\* capacities strictly between 0 and 4096.
C29_DoublesFromMaxOfCapacityAnd4096 ==
  (store.open /\ NeededBytes > store.capacity) =>
    \A tok \in FaultChoices, mok \in FaultChoices :
      Ensured(tok, mok).err = EMBEDLET_OK =>
        FirstDoubling(Ensured(tok, mok).st.capacity,
                      IF store.capacity > InitialCapacity THEN store.capacity
                                                          ELSE InitialCapacity,
                      NeededBytes)

\* C29 amended: whenever ensure_capacity(bytes) is called with bytes above
\* the mapped capacity and succeeds, the new capacity is the first value
\* >= bytes reached by doubling from twice the prior capacity, or from 4096
\* when the prior capacity is 0; a prior capacity strictly between 0 and
\* 4096 is doubled like any other and is not raised to 4096.
C29_DoublesFromTwiceCapacity ==
  (store.open /\ NeededBytes > store.capacity) =>
    \A tok \in FaultChoices, mok \in FaultChoices :
      Ensured(tok, mok).err = EMBEDLET_OK =>
        FirstDoubling(Ensured(tok, mok).st.capacity,
                      IF store.capacity = 0 THEN InitialCapacity ELSE 2 * store.capacity,
                      NeededBytes)

C29_Witness ==
  /\ ret.op = "append" /\ ret.rc = EMBEDLET_OK /\ ret.out = 2
  /\ store.data /\ Count = 3
  /\ store.capacity = 4 * embedlet_embedding_size
  /\ store.capacity < InitialCapacity

\* C30: embedlet_ensure_capacity leaves file_size unchanged: for every call,
\* growing or not, succeeding or failing, file_size after the call is
\* file_size before it.
C30_EnsureCapacityKeepsFileSize ==
  store.open =>
    \A tok \in FaultChoices, mok \in FaultChoices :
      Ensured(tok, mok).st.file_size = store.file_size

----------------------------------------------------------------------------
(***************************************************************************)
(* Properties of search, checked under SpecSearch.                         *)
(***************************************************************************)
\* a successful search of a non-empty store has returned
Searched == ret.op = "search" /\ ret.rc = EMBEDLET_OK /\ Count > 0

\* the ids in a result array
ResultIds(results) == {results[k].id : k \in 1..Len(results)}

\* the score the finished search gave, or would have given, to slot i
ScoreOf(i) ==
  IF ret.threads = 1
    THEN ScanSim(ret.query, embedlet_norm(ret.query), SlotAt(disk, i))
    ELSE WorkerSim(ret.query, embedlet_norm(ret.query), SlotAt(disk, i))

\* the slots below count that are not all zero and that the search left out
LeftOut == {i \in Live : ~embedlet_is_zeroed_ptr(SlotAt(disk, i))} \ ResultIds(ret.results)

\* C3: search is exact.  With most_similar every returned score is >= the
\* score of every non-zero slot below count that is not returned, and without
\* it every returned score is <= that score; a slot is left out only when the
\* array is full; each returned score is the score of its slot.  For every n
\* and every thread count.
C3_SearchIsExact ==
  Searched =>
    /\ \A k \in 1..Len(ret.results) :
         /\ ret.results[k].score = ScoreOf(ret.results[k].id)
         /\ \A i \in LeftOut :
              IF ret.most THEN ret.results[k].score >= ScoreOf(i)
                          ELSE ret.results[k].score <= ScoreOf(i)
    /\ LeftOut # {} => Len(ret.results) = ret.n

C3_Witness ==
  /\ Searched /\ ret.threads >= 2 /\ ret.most /\ ret.n = 2
  /\ Count = 3 /\ LeftOut # {}
  /\ ret.results[1].score > ret.results[2].score
  /\ \E i \in LeftOut : ScoreOf(i) < ret.results[2].score

\* C4: no id returned by search, single- or multi-threaded, most or least
\* similar, is the id of an all-zero slot, and every returned id is below
\* count.
C4_NoDeletedSlotReturned ==
  Searched =>
    \A k \in 1..Len(ret.results) :
      /\ ret.results[k].id \in Live
      /\ ~embedlet_is_zeroed_ptr(SlotAt(disk, ret.results[k].id))

C4_Witness ==
  /\ Searched /\ ret.threads >= 2 /\ ~ret.most
  /\ Len(ret.results) = 1 /\ ret.n = 2
  /\ \E i \in Live : embedlet_is_zeroed_ptr(SlotAt(disk, i))

\* C5: for every store content, query, n and direction, search with an
\* effective thread count of 2 or more returns the same set of ids as the
\* single-threaded search of the same inputs.
C5_SameIdsAsSingleThread ==
  (Searched /\ ret.threads >= 2) =>
    ResultIds(ret.results) =
      ResultIds(SearchHeap(disk, ret.query, Count, 1, ret.n, ret.most))

\* C35: the score search reports for a slot is the kernel's cosine of the
\* query and the slot, 0 when the norm of either is below FLT_EPSILON and
\* dot / (nq * ne) otherwise; the single-threaded scan and the pool worker
\* apply this one rule, so a (query, slot) pair has the same score in both
\* and the value embedlet_similarity_raw gives.
C35_ScoreIsTheKernelCosine ==
  Searched =>
    \A k \in 1..Len(ret.results) :
      /\ ret.results[k].score =
           embedlet_similarity_raw(ret.query, SlotAt(disk, ret.results[k].id))
      /\ ScanSim(ret.query, embedlet_norm(ret.query), SlotAt(disk, ret.results[k].id))
           = WorkerSim(ret.query, embedlet_norm(ret.query), SlotAt(disk, ret.results[k].id))

\* the scores of a result array, in its order
ScoresOf(results) == [k \in 1..Len(results) |-> results[k].score]

\* C37: for the same store contents, query, n and direction the sorted
\* sequence of scores search returns is the same for every effective thread
\* count: the merge of the heaps of the tasks keeps the same top-n scores as
\* one scan; only the ids of tied scores may differ.
C37_SameScoresForEveryThreadCount ==
  Searched =>
    \A single \in Qsort(SearchHeap(disk, ret.query, Count, 1, ret.n, ret.most), ret.most) :
      ScoresOf(ret.results) = ScoresOf(single)

\* C16: search sets count_out to the smaller of n and the number of slots
\* below count that are not all zero, for every n > 0 and every thread
\* selector; 0 on an empty store.
C16_CountOutIsMin ==
  (ret.op = "search" /\ ret.rc = EMBEDLET_OK) =>
    LET live == Cardinality({i \in Live : ~embedlet_is_zeroed_ptr(SlotAt(disk, i))})
    IN /\ ret.count_out = IF ret.n < live THEN ret.n ELSE live
       /\ ret.count_out = Len(ret.results)

C16_Witness ==
  /\ Searched /\ ret.threads = 3 /\ Count = 3
  /\ ret.n = 2 /\ ret.count_out = 1
  /\ ~embedlet_is_zeroed_ptr(SlotAt(disk, 2))

\* C17: the result array of search is sorted by score, non-increasing with
\* most_similar and non-decreasing without it, on the single-threaded and
\* on the multi-threaded path.
C17_ResultsSorted ==
  (ret.op = "search" /\ ret.rc = EMBEDLET_OK) =>
    \A k \in 1..(Len(ret.results) - 1) :
      IF ret.most THEN ret.results[k].score >= ret.results[k + 1].score
                  ELSE ret.results[k].score <= ret.results[k + 1].score

C17_Witness ==
  /\ Searched /\ ret.threads >= 2 /\ ~ret.most
  /\ Len(ret.results) = 2
  /\ ret.results[1].score < ret.results[2].score

----------------------------------------------------------------------------
(***************************************************************************)
(* Properties of concurrent appends, checked under SpecAppend2.            *)
(***************************************************************************)
\* both calls have returned
BothReturned == \A t \in AppendThreads : callers[t].pc = "done"

\* C19: when two threads call append(reuse = false) at the same time on a
\* store whose count is c, both calls succeed, they return the distinct ids
\* c and c+1, count becomes c+2, each of the two slots holds exactly the
\* vector of the call that was given that id, and the slots below c are
\* untouched; under every interleaving of the two calls.
C19_ConcurrentAppendsBothLand ==
  BothReturned =>
    /\ \A t \in AppendThreads : callers[t].rc = EMBEDLET_OK
    /\ {callers[t].id_out : t \in AppendThreads} = {snap.count, snap.count + 1}
    /\ Count = snap.count + 2
    /\ \A t \in AppendThreads : Get(callers[t].id_out) = callers[t].data
    /\ \A i \in 0..(snap.count - 1) : Get(i) = SlotAt(snap.fl, i)

C19_Witness ==
  /\ BothReturned
  /\ snap.count = 0
  /\ callers[1].id_out = 1 /\ callers[2].id_out = 0
  /\ callers[1].data = LastVec /\ callers[2].data = FirstVec
  /\ Get(0) = FirstVec /\ Get(1) = LastVec

\* C28: every public operation other than count, dims and get holds the
\* store's mutex for its whole duration; so while an is_zeroed call is
\* reading the floats of a slot, no append of another thread is between
\* its lock and its unlock.
C28_ReadersHoldTheMutex ==
  \A t \in DOMAIN callers :
    callers[t].pc = "read" => mutex = NoOwner

----------------------------------------------------------------------------
(***************************************************************************)
(* Properties of the thread pool, checked under SpecPool.                  *)
(***************************************************************************)
\* embedlet_pool_wait has returned to the search of thread s, which has not
\* yet freed its tasks
WaitReturned(s) == searches[s].pc = "merge"

\* C20: when embedlet_pool_wait returns to a search that had submitted all
\* its tasks before the call, every one of those tasks has finished its
\* callback, so result_count and the local heap of each task are what
\* embedlet_search_worker computes for its range, before the merge reads
\* them; under every interleaving of the pool threads, also while another
\* search uses the same pool.
C20_WaitReturnsAfterOwnTasks ==
  \A s \in Searchers :
    WaitReturned(s) =>
      \A i \in 0..(searches[s].threads - 1) :
        /\ searches[s].tasks[i + 1].finished
        /\ <<s, i>> \notin DOMAIN pool.items
        /\ \A w \in DOMAIN workers : workers[w].pc = "run" => workers[w].work # <<s, i>>
        /\ searches[s].tasks[i + 1].local_results =
             embedlet_search_worker(disk, PoolQuery(s), embedlet_norm(PoolQuery(s)), i,
                                    Count, searches[s].threads, MaxN, PoolMost(s))
        /\ searches[s].tasks[i + 1].result_count =
             Len(searches[s].tasks[i + 1].local_results)

C20_Witness ==
  /\ WaitReturned(2)
  /\ searches[2].threads = MaxPoolThreads
  /\ searches[1].pc = "submit" /\ searches[1].i = 1
  /\ \A i \in 1..searches[2].threads : searches[2].tasks[i].result_count > 0

RECURSIVE QueuedFrom(_, _)
\* the work items linked from work by their next pointers, in order
QueuedFrom(p, work) ==
  IF work = NoWork THEN <<>> ELSE <<work>> \o QueuedFrom(p, p.items[work].next)

\* the queue of the pool, from work_head
Queue(p) == QueuedFrom(p, p.work_head)

\* the work items pool threads hold between dequeue and the end of the callback
InFlight == {workers[w].work : w \in {v \in DOMAIN workers : workers[v].pc = "run"}}

\* C40: every work item that submit enqueued is run exactly once, by one
\* pool thread, and the items are dequeued in the order in which they were
\* enqueued; no item is run twice or by two threads, under any
\* interleaving.
C40_FifoExactlyOnce ==
  /\ [](/\ \A j \in 1..Len(Queue(pool)) : \A k \in 1..Len(Queue(pool)) :
             j # k => Queue(pool)[j] # Queue(pool)[k]
        /\ \A w \in DOMAIN workers : \A v \in DOMAIN workers :
             (w # v /\ workers[w].pc = "run" /\ workers[v].pc = "run")
               => workers[w].work # workers[v].work
        /\ \A j \in 1..Len(Queue(pool)) : Queue(pool)[j] \notin InFlight
        /\ \A s \in Searchers : \A i \in 0..(searches[s].threads - 1) :
             searches[s].tasks # <<>> /\ searches[s].tasks[i + 1].finished =>
               /\ <<s, i>> \notin InFlight
               /\ \A j \in 1..Len(Queue(pool)) : Queue(pool)[j] # <<s, i>>
        /\ \A s \in Searchers : \A i \in 0..(searches[s].threads - 1) :
             WaitReturned(s) => searches[s].tasks[i + 1].finished)
  /\ [][/\ pool'.pending_count > pool.pending_count =>
             \E s \in Searchers :
               /\ searches[s].pc = "submit"
               /\ Queue(pool') = Append(Queue(pool), <<s, searches[s].i>>)
        /\ \A w \in DOMAIN workers :
             (workers[w].pc = "top" /\ workers'[w].pc = "run") =>
               /\ Queue(pool) # <<>>
               /\ workers'[w].work = Head(Queue(pool))
               /\ Queue(pool') = Tail(Queue(pool))
        /\ \A w \in DOMAIN workers :
             (workers[w].pc = "run" /\ workers'[w].pc = "finish") =>
               LET s == workers[w].work[1]
                   i == workers[w].work[2]
               IN /\ ~searches[s].tasks[i + 1].finished
                  /\ searches'[s].tasks[i + 1].finished
        /\ Queue(pool') # Queue(pool) =>
             \/ pool'.pending_count > pool.pending_count
             \/ \E w \in DOMAIN workers : workers[w].pc = "top" /\ workers'[w].pc = "run"]_vars

\* the second of two queued items of one search is taken by a pool thread
\* while the first is in its callback
C40_Witness ==
  /\ \E w \in DOMAIN workers : \E v \in DOMAIN workers :
       /\ workers[w].pc = "run" /\ workers[w].work = <<2, 0>>
       /\ workers[v].pc = "run" /\ workers[v].work = <<2, 1>>
  /\ Len(Queue(pool)) = 2
  /\ Head(Queue(pool)) = <<1, 0>>

\* C21: under fair scheduling and without allocation failure every
\* multi-threaded search returns: once its tasks are allocated, all of them
\* are eventually run, embedlet_pool_wait unblocks and the search returns
\* EMBEDLET_OK, also when more tasks are queued than the pool has threads.
C21_SearchEventuallyReturns ==
  \A s \in Searchers :
    (searches[s].pc = "submit") ~>
      (/\ searches[s].pc = "done"
       /\ searches[s].rc = EMBEDLET_OK
       /\ \A i \in 1..searches[s].threads : searches[s].tasks[i].finished)

\* C25: over any sequence of searches on one store, also concurrent ones, at
\* most one pool is ever created; it is created only by a search whose
\* effective thread count is greater than 1 (never by a single-threaded
\* search or a search of an empty store), every later multi-threaded search
\* goes on with that same pool, and only close destroys it.
C25_OnePoolPerStore ==
  /\ [](pool.creations <= 1)
  /\ [][/\ pool'.creations # pool.creations =>
             \E s \in Searchers :
               /\ searches[s].pc = "create" /\ searches'[s].pc = "unlock"
               /\ searches[s].threads > 1
               /\ Count > 0
        /\ (pool.created /\ pool'.created) => pool'.num_threads = pool.num_threads
        /\ \A s \in Searchers :
             (searches[s].pc = "unlock" /\ searches'[s].pc = "submit") =>
               /\ pool'.created /\ pool'.creations = 1
               /\ searches[s].threads > 1
        /\ (pool.created /\ ~pool'.created) => (store.open /\ ~store'.open)]_vars

\* two searches go on with the one pool at the same time, one of them in a
\* thread that has searched before
C25_Witness ==
  /\ \A s \in Searchers : searches[s].pc = "submit"
  /\ searches[2].again
  /\ pool.created /\ pool.creations = 1

\* the pool has nothing queued, outstanding or in flight, and all its
\* threads are in their loop
Quiescent ==
  /\ pool.work_head = NoWork /\ pool.work_tail = NoWork
  /\ DOMAIN pool.items = {}
  /\ pool.pending_count = 0 /\ pool.active_count = 0
  /\ DOMAIN workers = 1..pool.num_threads
  /\ \A w \in DOMAIN workers : workers[w].pc \in {"top", "cond_work"}

\* the score the multi-threaded search of thread s gives to slot i
PoolScoreOf(s, i) == WorkerSim(PoolQuery(s), embedlet_norm(PoolQuery(s)), SlotAt(disk, i))

\* the slots that are not all zero and that the search of thread s left out
PoolLeftOut(s) ==
  {i \in Live : ~embedlet_is_zeroed_ptr(SlotAt(disk, i))} \ ResultIds(searches[s].results)

\* C26: when searches follow one another on a store, every multi-threaded
\* search that has returned leaves the pool quiescent (queue empty, nothing
\* pending, nothing in flight, no pool thread exited), so every one of any
\* number of consecutive searches completes and returns the top n of its
\* own query.
C26_PoolReusable ==
  /\ []((pool.created /\ ~Closing /\ \A s \in Searchers : searches[s].pc \in {"idle", "done"})
          => Quiescent)
  /\ [](\A s \in Searchers :
          (searches[s].pc = "done" /\ searches[s].threads > 1) =>
            /\ searches[s].rc = EMBEDLET_OK
            /\ searches[s].count_out = Len(searches[s].results)
            /\ \A k \in 1..Len(searches[s].results) :
                 /\ searches[s].results[k].score = PoolScoreOf(s, searches[s].results[k].id)
                 /\ \A i \in PoolLeftOut(s) :
                      IF PoolMost(s) THEN searches[s].results[k].score >= PoolScoreOf(s, i)
                                     ELSE searches[s].results[k].score <= PoolScoreOf(s, i)
            /\ PoolLeftOut(s) # {} => Len(searches[s].results) = MaxN)
  /\ \A s \in Searchers :
       (searches[s].pc = "submit") ~> (searches[s].pc = "done")

\* thread 2 has returned from a multi-threaded search that followed earlier
\* searches of both threads on the same pool
C26_Witness ==
  /\ searches[2].pc = "done" /\ searches[2].again /\ searches[2].threads > 1
  /\ searches[2].count_out = MaxN /\ PoolLeftOut(2) # {}
  /\ searches[1].pc = "idle" /\ searches[1].again
  /\ pool.creations = 1 /\ Quiescent

\* the ids of the range of task i of the search of thread s
TaskIds(s, i) ==
  {k \in Live : /\ TaskStart(i, Count, searches[s].threads) <= k
                /\ k < TaskEnd(i, Count, searches[s].threads)}

\* the tasks of the search of thread s whose work item was not allocated
Dropped(s) == {i \in 0..(searches[s].threads - 1) : searches[s].tasks[i + 1].dropped}

\* the work items that are allocated: queued or in a callback
Outstanding == DOMAIN pool.items

\* C27: if submit cannot allocate the work item of a task, the task is
\* never run and pending_count is not incremented, so embedlet_pool_wait
\* still returns; the search returns EMBEDLET_OK, its results hold only ids
\* of the ranges of the tasks that ran, and the dropped task contributes no
\* result.
C27_DroppedTaskContributesNothing ==
  /\ [](\A s \in Searchers : \A i \in Dropped(s) :
          /\ ~searches[s].tasks[i + 1].finished
          /\ searches[s].tasks[i + 1].result_count = 0
          /\ <<s, i>> \notin Outstanding
          /\ \A w \in DOMAIN workers : workers[w].work # <<s, i>>)
  /\ [](pool.pending_count =
          Cardinality(Outstanding)
            + Cardinality({w \in DOMAIN workers : workers[w].pc = "finish"}))
  /\ [](\A s \in Searchers :
          searches[s].pc = "done" =>
            /\ searches[s].rc = EMBEDLET_OK
            /\ searches[s].count_out = Len(searches[s].results)
            /\ \A id \in ResultIds(searches[s].results) :
                 \E i \in (0..(searches[s].threads - 1)) \ Dropped(s) : id \in TaskIds(s, i)
            /\ \A i \in (0..(searches[s].threads - 1)) \ Dropped(s) :
                 \A k \in 1..(searches[s].tasks[i + 1].result_count) :
                   Len(searches[s].results) < MaxN
                     => searches[s].tasks[i + 1].local_results[k].id
                          \in ResultIds(searches[s].results))
  /\ \A s \in Searchers :
       (searches[s].pc = "submit") ~> (searches[s].pc = "done")

\* search 1 has returned with results although the work item of its first
\* task could not be allocated
C27_Witness ==
  /\ searches[1].pc = "done" /\ searches[1].rc = EMBEDLET_OK
  /\ Dropped(1) = {0}
  /\ searches[1].tasks[2].finished
  /\ searches[1].count_out > 0

\* both searches have returned after more tasks than pool threads were
\* outstanding together, and the pool threads are blocked again
C21_Witness ==
  /\ \A s \in Searchers : searches[s].pc = "done" /\ searches[s].rc = EMBEDLET_OK
  /\ searches[1].threads + searches[2].threads > pool.num_threads
  /\ ~PoolBusy(pool)
  /\ \A w \in DOMAIN workers : workers[w].pc = "cond_work"

----------------------------------------------------------------------------
(***************************************************************************)
(* Properties of aborted searches and of the destruction of the pool,      *)
(* checked under SpecPoolAbort.                                            *)
(***************************************************************************)
\* embedlet_pool_destroy has set shutdown and waits in its joins
Destroying == Closing /\ callers[1].pc = "join"

\* embedlet_close has returned
Closed == Closing /\ callers[1].pc = "closed"

\* C36: under fair scheduling and callbacks that return, pool destroy
\* returns: once shutdown is set and cond_work is broadcast every pool
\* thread leaves its loop, a thread leaving only when shutdown is set and
\* the queue is empty, and the joins complete; when destroy returns the
\* queue is empty and nothing is in flight.
C36_DestroyReturns ==
  /\ Destroying ~> Closed
  /\ [][/\ \A w \in DOMAIN workers :
             (workers[w].pc # "exited" /\ w \in DOMAIN workers' /\ workers'[w].pc = "exited")
               => (pool.shutdown /\ pool.work_head = NoWork)
        /\ (Destroying /\ Closed') =>
             /\ pool.work_head = NoWork /\ pool.work_tail = NoWork
             /\ DOMAIN pool.items = {}
             /\ pool.active_count = 0
             /\ \A w \in DOMAIN workers : workers[w].pc = "exited"]_vars

\* close has returned after it destroyed a pool that two searches used
C36_Witness ==
  /\ Closed /\ ~store.open
  /\ pool.creations = 1 /\ ~pool.created
  /\ \A s \in Searchers : searches[s].pc = "done" /\ searches[s].rc = EMBEDLET_OK

\* C39: in every reachable state of the pool in which the pool mutex is
\* free, pending_count is the number of queued work items plus
\* active_count, active_count is between 0 and num_threads, and work_tail
\* is NULL exactly when work_head is NULL.
C39_PoolCountersAgree ==
  pool.created =>
    /\ pool.pending_count = Len(Queue(pool)) + pool.active_count
    /\ 0 <= pool.active_count /\ pool.active_count <= pool.num_threads
    /\ (pool.work_tail = NoWork) <=> (pool.work_head = NoWork)

\* a pool with items queued while all its threads are in flight
C39_Witness ==
  /\ pool.created
  /\ Len(Queue(pool)) >= 2
  /\ pool.active_count = pool.num_threads
  /\ pool.work_tail # pool.work_head

\* C38: whenever search returns, with EMBEDLET_OK or with an error code,
\* also after the allocation of the local buffer of a task failed when
\* earlier tasks were submitted, none of the tasks it submitted is queued or
\* in flight: the task records and the local buffers are not freed while a
\* pool thread can still read or write them.
C38_NoTaskOutlivesItsSearch ==
  \A s \in Searchers :
    searches[s].pc = "done" =>
      /\ \A i \in 0..(searches[s].threads - 1) :
           /\ <<s, i>> \notin DOMAIN pool.items
           /\ \A w \in DOMAIN workers : workers[w].pc = "run" => workers[w].work # <<s, i>>
      /\ ~searches[s].stale

----------------------------------------------------------------------------
(***************************************************************************)
(* Properties of the thread count and the task ranges, checked under       *)
(* SpecTasks.                                                              *)
(***************************************************************************)
\* the smaller of two numbers
Min(a, b) == IF a < b THEN a ELSE b

\* the ranges of the call are computed
RangesReady == searches[1].pc = "ready"

\* the size of range i (counted from 0)
RangeSize(i) == searches[1].tasks[i + 1].end - searches[1].tasks[i + 1].start

\* C31: for every count >= 1 and effective thread count T, 1 <= T <= count,
\* the T task ranges [start, end) are contiguous and in order (the first
\* starts at 0, each ends where the next starts, the last ends at count),
\* pairwise disjoint, cover [0, count) exactly, are non-empty, and have
\* count \div T + 1 slots for the first count % T tasks and count \div T for
\* the others.
C31_RangesPartitionTheStore ==
  RangesReady =>
    LET T == searches[1].threads
        tasks == searches[1].tasks
    IN /\ Len(tasks) = T
       /\ tasks[1].start = 0
       /\ \A i \in 1..(T - 1) : tasks[i].end = tasks[i + 1].start
       /\ tasks[T].end = Count
       /\ \A i \in 1..T : \A j \in 1..T :
            i # j => (tasks[i].end <= tasks[j].start \/ tasks[j].end <= tasks[i].start)
       /\ \A k \in Live : \E i \in 1..T : tasks[i].start <= k /\ k < tasks[i].end
       /\ \A i \in 1..T : tasks[i].start < tasks[i].end /\ tasks[i].end <= Count
       /\ \A i \in 0..(T - 1) :
            RangeSize(i) = (Count \div T) + (IF i < Count % T THEN 1 ELSE 0)

\* a store whose count is not a multiple of the thread count: ranges of two
\* sizes
C31_Witness ==
  /\ RangesReady
  /\ searches[1].threads = 4 /\ Count = MaxTaskCount
  /\ Count % searches[1].threads # 0
  /\ RangeSize(0) = RangeSize(3) + 1

\* C32: for every num_threads argument and every count >= 1 the effective
\* thread count T is between 1 and count: AUTO resolves to the least of
\* cpu_count, 8 and count, a positive k to the smaller of k and count, a
\* negative value to 1.
C32_EffectiveThreadCount ==
  searches[1].pc # "threads" =>
    LET T == searches[1].threads
        k == searches[1].num_threads
    IN /\ 1 <= T /\ T <= Count
       /\ k = EMBEDLET_AUTO_THREADS => T = Min(Min(searches[1].cpu_count, 8), Count)
       /\ k > 0 => T = Min(k, Count)
       /\ k < 0 => T = 1

\* AUTO on a machine of more than 8 processors and a store of more than 8
\* slots
C32_Witness ==
  /\ searches[1].pc = "ready"
  /\ searches[1].num_threads = EMBEDLET_AUTO_THREADS
  /\ searches[1].cpu_count > 8 /\ Count > 8
  /\ searches[1].threads = 8

----------------------------------------------------------------------------
(***************************************************************************)
(* Properties of the bounded heaps, checked under SpecHeap.                *)
(***************************************************************************)
\* a push has been made onto a full heap
PushedOnFull == ret.op = "push" /\ Len(ret.before) = ret.max_size

\* C33: pushing (id, score) onto a full heap whose root score equals score
\* leaves the heap unchanged, for the min-heap of most-similar and the
\* max-heap of least-similar; a full heap admits an element only if its
\* score is strictly greater (most) or strictly less (least) than the root.
C33_TiesAreNotAdmitted ==
  PushedOnFull =>
    /\ ret.score = ret.before[1].score => ret.results = ret.before
    /\ ret.results # ret.before =>
         IF ret.most THEN ret.score > ret.before[1].score
                     ELSE ret.score < ret.before[1].score
    /\ (\E k \in 1..Len(ret.results) : ret.results[k].id = ret.id) =>
         IF ret.most THEN ret.score > ret.before[1].score
                     ELSE ret.score < ret.before[1].score

\* a push of the root's score onto a full min-heap of more than one entry
C33_Witness ==
  /\ PushedOnFull /\ ret.most /\ ret.max_size = MaxHeap
  /\ ret.score = ret.before[1].score
  /\ ret.results = ret.before
  /\ \E k \in 2..Len(ret.before) : ret.before[k].score > ret.score

\* how many of the first m entries of a sequence of scores are v
Occurrences(scores, v) == Cardinality({j \in 1..Len(scores) : scores[j] = v})

\* the scores of the entries of a heap
HeapScoresOf(heap) == [j \in 1..Len(heap) |-> heap[j].score]

\* how many times v is among the kept best of the pushed scores
KeptOccurrences(pushed, kept, v, most_similar) ==
  LET better == Cardinality({j \in 1..Len(pushed) :
                               IF most_similar THEN pushed[j] > v ELSE pushed[j] < v})
      room == IF kept > better THEN kept - better ELSE 0
  IN Min(Occurrences(pushed, v), room)

\* C34: after m pushes onto an initially empty heap of capacity k the heap
\* holds min(k, m) entries, its root is the smallest kept score (most
\* similar) or the largest (least similar), and the kept scores are, as a
\* multiset, the min(k, m) largest (most) or smallest (least) of the scores
\* pushed.
C34_HeapKeepsTheBest ==
  ret.op = "push" =>
    LET kept == Min(ret.max_size, Len(ret.pushed))
        held == HeapScoresOf(ret.results)
    IN /\ Len(ret.results) = kept
       /\ \A j \in 1..kept :
            IF ret.most THEN held[1] <= held[j] ELSE held[1] >= held[j]
       /\ \A v \in HeapScores :
            Occurrences(held, v) = KeptOccurrences(ret.pushed, kept, v, ret.most)

\* a max-heap of full capacity after more pushes than it holds, some of
\* them replacing the root, with equal scores among those pushed
C34_Witness ==
  /\ ret.op = "push" /\ ~ret.most /\ ret.max_size = MaxHeap
  /\ Len(ret.pushed) = MaxPushes
  /\ ret.results # ret.before
  /\ Len(ret.before) = ret.max_size
  /\ \E i \in 1..MaxPushes : \E j \in 1..MaxPushes : i # j /\ ret.pushed[i] = ret.pushed[j]
  /\ \E j \in 1..MaxPushes : ret.pushed[j] > ret.results[1].score

=============================================================================
